---------------------------- MODULE Spec2Model ----------------------------
(***************************************************************************)
(* Verification model of the sub-microsecond execution engine:             *)
(*   - LockFreeQueue            (lockfree_queue.hpp, SPSC ring)            *)
(*   - OrderBookReconstructor   (order_book_reconstructor.hpp)             *)
(*   - BacktestingEngine        (backtesting_engine.hpp): temporal filter, *)
(*     latency floor, event loop, Hawkes intensity feed                    *)
(* Each component has its own specification (SpecQueue, SpecBook, ...)     *)
(* over the variables of this module; the variables of the components a    *)
(* specification does not exercise stay at their constructed value.        *)
(*                                                                         *)
(* Numbers: the C++ doubles that carry quantities, prices and imbalances   *)
(* are modelled by exact integers (fixed point where stated); rounding of  *)
(* IEEE arithmetic is outside the model.                                   *)
(***************************************************************************)
EXTENDS Integers, Sequences, FiniteSets, TLC

VARIABLES
    \* ---- LockFreeQueue<T, Capacity> ----
    head_,          \* std::atomic<size_t> head_  (consumer index)
    tail_,          \* std::atomic<size_t> tail_  (producer index)
    buffer_,        \* std::array<T, Capacity>; a T is two words <<lo, hi>>
    prod,           \* producer thread: position inside push and its locals
    cons,           \* consumer thread: position inside pop and its locals
    pushed,         \* history: items accepted by successful pushes, in order
    popped,         \* history: items returned by successful pops, in order
    attempts,       \* history: number of push calls started
    \* ---- OrderBookReconstructor ----
    book,           \* the object: a record of its data members
    obLast,         \* history: the last call made on it and what it returned
    obCalls,        \* history: number of calls made so far
    balAdded,       \* history: order ids ADDed so far (balanced replay)
    balDeleted,     \* history: order ids DELETEd so far (balanced replay)
    \* ---- BacktestingEngine ----
    bt,             \* the engine: a record of its data members and loop state
    btObs,          \* history: what the last loop iteration did
    btRun,          \* history: the run of strong imbalances ending now
    \* ---- two executions of one backtest ----
    det,            \* the two executions, replaying the same file in step
    \* ---- DynamicMMStrategy ----
    mm,             \* the quotes last returned by calculate_quotes, with their inputs
    \* ---- FillProbabilityModel ----
    fm,             \* the last fill decision: its inputs, the probability, the outcome
    \* ---- CompileTimeRiskChecker ----
    rc,             \* the last call of check_order: its policy, its arguments, its result
    \* ---- FastLOBReconstructor ----
    fast,           \* the FastLOBReconstructor and the result of its last process_update
    \* ---- KernelBypassNIC / MarketDataSimulator ----
    nic,            \* the KernelBypassNIC
    sim,            \* the MarketDataSimulator: running flag, tick counter
    nicLast,        \* result of the last direct inject call
    \* ---- HawkesIntensityEngine ----
    hk,             \* a HawkesIntensityEngine driven by update alone
    \* ---- LockFreeQueue::size ----
    obs,            \* a thread inside size(): its position, the head it loaded, its result
    \* ---- ComponentTiming ----
    ct,             \* a ComponentTiming, the last value total() returned, the last operation
    \* ---- BacktestingEngine: position ----
    ps,             \* the engine seen through its position: clock, pending orders, current_position_
    \* ---- ArrayBasedOrderBook ----
    ab,             \* the ArrayBasedOrderBook used on its own
    \* ---- OrderBookReconstructor: locking ----
    lk,             \* the mutexes of OrderBookReconstructor and the threads calling it
    \* ---- BacktestingEngine: the latency sweep ----
    sw,             \* the engine of the latency sweep and a fresh engine beside it
    \* ---- OrderBookReconstructor: one update and its effect ----
    ob,             \* a reconstructor, the update it was last given and its state before it
    \* ---- BacktestingEngine: the latency-cost gate ----
    gt,             \* the last signal generated on a persistent imbalance
    \* ---- BacktestingEngine: enable_adverse_selection ----
    av,             \* the last fill decision and the configuration it was taken under
    \* ---- the sequence check of both reconstructors ----
    sq,             \* both reconstructors, and the last call with the state before it
    \* ---- OrderBookReconstructor: the pressure windows ----
    pw              \* a reconstructor fed aggressive trades, and the trades it was fed

queueVars == <<head_, tail_, buffer_, prod, cons, pushed, popped, attempts>>
bookVars == <<book, obLast, obCalls, balAdded, balDeleted>>

backtestVars == <<bt, btObs, btRun>>

vars == <<queueVars, bookVars, backtestVars, det, mm, fm, rc, fast, nic, sim, nicLast, hk, obs, ct, ps, ab, lk, sw, ob, gt, av, sq, pw>>

\* what the actions of one component leave alone
notQueue == <<bookVars, backtestVars, det, mm, fm, rc, fast, nic, sim, nicLast, hk, obs, ct, ps, ab, lk, sw, ob, gt, av, sq, pw>>
notBook == <<queueVars, backtestVars, det, mm, fm, rc, fast, nic, sim, nicLast, hk, obs, ct, ps, ab, lk, sw, ob, gt, av, sq, pw>>
notBacktest == <<queueVars, bookVars, det, mm, fm, rc, fast, nic, sim, nicLast, hk, obs, ct, ps, ab, lk, sw, ob, gt, av, sq, pw>>
notDeterminism == <<queueVars, bookVars, backtestVars, mm, fm, rc, fast, nic, sim, nicLast, hk, obs, ct, ps, ab, lk, sw, ob, gt, av, sq, pw>>
notQuotes == <<queueVars, bookVars, backtestVars, det, fm, rc, fast, nic, sim, nicLast, hk, obs, ct, ps, ab, lk, sw, ob, gt, av, sq, pw>>
notFill == <<queueVars, bookVars, backtestVars, det, mm, rc, fast, nic, sim, nicLast, hk, obs, ct, ps, ab, lk, sw, ob, gt, av, sq, pw>>
notRisk == <<queueVars, bookVars, backtestVars, det, mm, fm, fast, nic, sim, nicLast, hk, obs, ct, ps, ab, lk, sw, ob, gt, av, sq, pw>>
notFast == <<queueVars, bookVars, backtestVars, det, mm, fm, rc, nic, sim, nicLast, hk, obs, ct, ps, ab, lk, sw, ob, gt, av, sq, pw>>
notNic == <<queueVars, bookVars, backtestVars, det, mm, fm, rc, fast, hk, obs, ct, ps, ab, lk, sw, ob, gt, av, sq, pw>>
notHawkes == <<queueVars, bookVars, backtestVars, det, mm, fm, rc, fast,
    nic, sim, nicLast, obs, ct, ps, ab, lk, sw, ob, gt, av, sq, pw>>
notObserved == <<queueVars, bookVars, backtestVars, det, mm, fm, rc, fast,
    nic, sim, nicLast, hk, ct, ps, ab, lk, sw, ob, gt, av, sq, pw>>
notTiming == <<queueVars, bookVars, backtestVars, det, mm, fm, rc, fast,
    nic, sim, nicLast, hk, obs, ps, ab, lk, sw, ob, gt, av, sq, pw>>
notPosition == <<queueVars, bookVars, backtestVars, det, mm, fm, rc, fast,
    nic, sim, nicLast, hk, obs, ct, ab, lk, sw, ob, gt, av, sq, pw>>
notLockstep == <<queueVars, backtestVars, det, mm, fm, rc, nic, sim, nicLast,
    hk, obs, ct, ps, ab, lk, sw, ob, gt, av, sq, pw>>
notArray == <<queueVars, bookVars, backtestVars, det, mm, fm, rc, fast,
    nic, sim, nicLast, hk, obs, ct, ps, lk, sw, ob, gt, av, sq, pw>>
notLocking == <<queueVars, bookVars, backtestVars, det, mm, fm, rc, fast,
    nic, sim, nicLast, hk, obs, ct, ps, ab, sw, ob, gt, av, sq, pw>>
notSweep == <<queueVars, bookVars, backtestVars, det, mm, fm, rc, fast,
    nic, sim, nicLast, hk, obs, ct, ps, ab, lk, ob, gt, av, sq, pw>>
notHandlers == <<queueVars, bookVars, backtestVars, det, mm, fm, rc, fast,
    nic, sim, nicLast, hk, obs, ct, ps, ab, lk, sw, gt, av, sq, pw>>
notGate == <<queueVars, bookVars, backtestVars, det, mm, fm, rc, fast, nic,
    sim, nicLast, hk, obs, ct, ps, ab, lk, sw, ob, av, sq, pw>>
notAdverse == <<queueVars, bookVars, backtestVars, det, mm, fm, rc, fast,
    nic, sim, nicLast, hk, obs, ct, ps, ab, lk, sw, ob, gt, sq, pw>>
notSequence == <<queueVars, bookVars, backtestVars, det, mm, fm, rc, fast,
    nic, sim, nicLast, hk, obs, ct, ps, ab, lk, sw, ob, gt, av, pw>>
notPressure == <<queueVars, bookVars, backtestVars, det, mm, fm, rc, fast,
    nic, sim, nicLast, hk, obs, ct, ps, ab, lk, sw, ob, gt, av, sq>>

-----------------------------------------------------------------------------
(***************************************************************************)
(* LockFreeQueue                                                           *)
(***************************************************************************)

\* Capacity is a template parameter that must be a power of two
\* (static_assert); the model fixes it as 2^CapacityLog2.
CapacityLog2 == 2

\* number of push calls the producer makes
MaxPush == 8

RECURSIVE Pow2(_)
Pow2(n) == IF n = 0 THEN 1 ELSE 2 * Pow2(n - 1)

Capacity == Pow2(CapacityLog2)

RECURSIVE BitAnd(_, _)
BitAnd(a, b) ==
    IF a = 0 \/ b = 0 THEN 0
    ELSE (a % 2) * (b % 2) + 2 * BitAnd(a \div 2, b \div 2)

\* static constexpr size_t increment(size_t idx)
increment(idx) == BitAnd(idx + 1, Capacity - 1)

\* A value of T occupies two machine words, copied one after the other
\* (operator= of a trivially copyable T is not atomic).
Item(v) == <<v, v>>
Junk == <<0, 0>>

ProdIdle == [pc |-> "idle", item |-> Junk, current_tail |-> 0, next_tail |-> 0,
             ret |-> "none"]
ConsIdle == [pc |-> "idle", item |-> Junk, current_head |-> 0, ret |-> "none"]

InitQueue ==
    /\ head_ = 0
    /\ tail_ = 0
    /\ buffer_ = [i \in 0 .. Capacity - 1 |-> Junk]
    /\ prod = ProdIdle
    /\ cons = ConsIdle
    /\ pushed = <<>>
    /\ popped = <<>>
    /\ attempts = 0

\* push(item): const size_t current_tail = tail_.load(relaxed);
\*             const size_t next_tail = increment(current_tail);
PushLoadTail ==
    /\ prod.pc = "idle"
    /\ attempts < MaxPush
    /\ attempts' = attempts + 1
    /\ prod' = [pc |-> "check_full", item |-> Item(attempts + 1),
                current_tail |-> tail_, next_tail |-> increment(tail_),
                ret |-> "none"]
    /\ UNCHANGED <<head_, tail_, buffer_, cons, pushed, popped>>

\* the full test of push with the reserved slot left out (mutation of
\* PushCheckFull: every push proceeds to the slot write)
PushCheckFullNoTest ==
    /\ prod.pc = "check_full"
    /\ prod' = [prod EXCEPT !.pc = "write_lo"]
    /\ UNCHANGED <<head_, tail_, buffer_, cons, pushed, popped, attempts>>

\* the full test made on current_tail, without the reserved slot (mutation of
\* PushCheckFull)
PushCheckFullAgainstTail ==
    /\ prod.pc = "check_full"
    /\ prod' = IF prod.current_tail = head_
               THEN [prod EXCEPT !.pc = "idle", !.ret = "false"]
               ELSE [prod EXCEPT !.pc = "write_lo"]
    /\ UNCHANGED <<head_, tail_, buffer_, cons, pushed, popped, attempts>>

\* if (next_tail == head_.load(acquire)) return false;
PushCheckFull ==
    /\ prod.pc = "check_full"
    /\ prod' = IF prod.next_tail = head_
               THEN [prod EXCEPT !.pc = "idle", !.ret = "false"]
               ELSE [prod EXCEPT !.pc = "write_lo"]
    /\ UNCHANGED <<head_, tail_, buffer_, cons, pushed, popped, attempts>>

\* buffer_[current_tail] = item;   (first word)
PushWriteLo ==
    /\ prod.pc = "write_lo"
    /\ buffer_' = [buffer_ EXCEPT ![prod.current_tail][1] = prod.item[1]]
    /\ prod' = [prod EXCEPT !.pc = "write_hi"]
    /\ UNCHANGED <<head_, tail_, cons, pushed, popped, attempts>>

\* buffer_[current_tail] = item;   (second word)
PushWriteHi ==
    /\ prod.pc = "write_hi"
    /\ buffer_' = [buffer_ EXCEPT ![prod.current_tail][2] = prod.item[2]]
    /\ prod' = [prod EXCEPT !.pc = "publish"]
    /\ UNCHANGED <<head_, tail_, cons, pushed, popped, attempts>>

\* tail_.store(next_tail, release); return true;
PushPublish ==
    /\ prod.pc = "publish"
    /\ tail_' = prod.next_tail
    /\ pushed' = Append(pushed, prod.item)
    /\ prod' = [prod EXCEPT !.pc = "idle", !.ret = "true"]
    /\ UNCHANGED <<head_, buffer_, cons, popped, attempts>>

\* pop(item): const size_t current_head = head_.load(relaxed);
PopLoadHead ==
    /\ cons.pc = "idle"
    /\ cons' = [pc |-> "check_empty", item |-> Junk, current_head |-> head_,
                ret |-> "none"]
    /\ UNCHANGED <<head_, tail_, buffer_, prod, pushed, popped, attempts>>

\* the empty test of pop left out (mutation of PopCheckEmpty: every pop
\* proceeds to the slot read)
PopCheckEmptyNoTest ==
    /\ cons.pc = "check_empty"
    /\ cons' = [cons EXCEPT !.pc = "read_lo"]
    /\ UNCHANGED <<head_, tail_, buffer_, prod, pushed, popped, attempts>>

\* if (current_head == tail_.load(acquire)) return false;
PopCheckEmpty ==
    /\ cons.pc = "check_empty"
    /\ cons' = IF cons.current_head = tail_
               THEN [cons EXCEPT !.pc = "idle", !.ret = "false"]
               ELSE [cons EXCEPT !.pc = "read_lo"]
    /\ UNCHANGED <<head_, tail_, buffer_, prod, pushed, popped, attempts>>

\* item = buffer_[current_head];   (first word)
PopReadLo ==
    /\ cons.pc = "read_lo"
    /\ cons' = [cons EXCEPT !.pc = "read_hi",
                            !.item[1] = buffer_[cons.current_head][1]]
    /\ UNCHANGED <<head_, tail_, buffer_, prod, pushed, popped, attempts>>

\* item = buffer_[current_head];   (second word)
PopReadHi ==
    /\ cons.pc = "read_hi"
    /\ cons' = [cons EXCEPT !.pc = "advance",
                            !.item[2] = buffer_[cons.current_head][2]]
    /\ UNCHANGED <<head_, tail_, buffer_, prod, pushed, popped, attempts>>

\* head_.store(increment(current_head), release); return true;
PopAdvance ==
    /\ cons.pc = "advance"
    /\ head_' = increment(cons.current_head)
    /\ popped' = Append(popped, cons.item)
    /\ cons' = [cons EXCEPT !.pc = "idle", !.ret = "true"]
    /\ UNCHANGED <<tail_, buffer_, prod, pushed, attempts>>

\* size() without the wrapped case (mutation of SizeOf)
SizeOfNoWrap(h, t) == t - h

\* size(): (t >= h) ? (t - h) : (Capacity - h + t)
SizeOf(h, t) == IF t >= h THEN t - h ELSE Capacity - h + t

\* size_t capacity() const: one slot reserved
capacity == Capacity - 1

\* bool empty() const
empty == head_ = tail_

ObsIdle == [pc |-> "idle", h |-> 0, ret |-> 0]

\* size() on any thread: const size_t h = head_.load(acquire);
SizeLoadHead ==
    /\ obs.pc \in {"idle", "done"}
    /\ obs' = [pc |-> "load_tail", h |-> head_, ret |-> 0]

\* const size_t t = tail_.load(acquire); return ...
SizeLoadTail ==
    /\ obs.pc = "load_tail"
    /\ obs' = [pc |-> "done", h |-> obs.h, ret |-> SizeOf(obs.h, tail_)]

NextQueue ==
    \/ PushLoadTail /\ UNCHANGED notQueue
    \/ PushCheckFull /\ UNCHANGED notQueue
    \/ PushWriteLo /\ UNCHANGED notQueue
    \/ PushWriteHi /\ UNCHANGED notQueue
    \/ PushPublish /\ UNCHANGED notQueue
    \/ PopLoadHead /\ UNCHANGED notQueue
    \/ PopCheckEmpty /\ UNCHANGED notQueue
    \/ PopReadLo /\ UNCHANGED notQueue
    \/ PopReadHi /\ UNCHANGED notQueue
    \/ PopAdvance /\ UNCHANGED notQueue


-----------------------------------------------------------------------------
(***************************************************************************)
(* OrderBookReconstructor                                                  *)
(*                                                                         *)
(* bids_ / asks_ (std::map<double, PriceLevel>) are functions whose domain *)
(* is the set of present prices; orders_ (unordered_map) is a function     *)
(* whose domain is the set of tracked order ids.  Prices and quantities    *)
(* are integers.  The *_ns timestamps are carried by the code but decide   *)
(* nothing and are left out.  The uint64 counters are plain integers.      *)
(***************************************************************************)

\* input bounds
MaxOrderId == 2
MaxPrice == 2
MaxQty == 2
MaxSeq == 3
MaxCalls == 3

\* std::array<double, 10>: number of levels the OFI features cover
OfiLevels == 10

OrderIds == 1 .. MaxOrderId
Prices == 1 .. MaxPrice
Quantities == 1 .. MaxQty
SeqNums == 0 .. MaxSeq
UpdateTypes == {"ADD", "MODIFY", "DELETE", "EXECUTE", "SNAPSHOT"}

EmptyMap == [x \in {} |-> 0]
Erase(m, k) == [x \in DOMAIN m \ {k} |-> m[x]]
Put(m, k, v) == [x \in DOMAIN m \cup {k} |-> IF x = k THEN v ELSE m[x]]

\* PriceLevel(double p, double q, uint64_t cnt = 1)
PriceLevel(p, q, cnt) == [price |-> p, quantity |-> q, order_count |-> cnt]

ZeroArray == [i \in 0 .. OfiLevels - 1 |-> 0]

\* DeepOFIFeatures(): every member zero
DeepOFIFeatures ==
    [bid_ofi |-> ZeroArray, ask_ofi |-> ZeroArray, total_ofi |-> 0,
     top_5_ofi |-> 0, top_1_ofi |-> 0,
     buy_pressure |-> 0, sell_pressure |-> 0, net_pressure |-> 0]

\* OrderBookReconstructor(symbol, max_depth)
NewBook ==
    [bids_ |-> EmptyMap, asks_ |-> EmptyMap, orders_ |-> EmptyMap,
     last_sequence_number_ |-> 0, gap_detected_ |-> FALSE,
     total_updates_ |-> 0, missed_updates_ |-> 0, snapshot_requests_ |-> 0,
     is_initialized_ |-> FALSE,
     previous_bid_quantities_ |-> ZeroArray,
     previous_ask_quantities_ |-> ZeroArray,
     recent_buy_volume_ |-> <<>>, recent_sell_volume_ |-> <<>>,
     current_ofi_ |-> DeepOFIFeatures,
     published_ |-> 0]

RECURSIVE SumSeq(_)
SumSeq(s) ==
    IF s = <<>> THEN 0
    ELSE IF Len(s) = 1 THEN s[1]
    ELSE LET half == Len(s) \div 2
         IN SumSeq(SubSeq(s, 1, half)) + SumSeq(SubSeq(s, half + 1, Len(s)))

SetMax(S) == CHOOSE x \in S : \A y \in S : y <= x
SetMin(S) == CHOOSE x \in S : \A y \in S : x <= y

\* iteration order of a side: bids_.rbegin().. (descending), asks_.begin()..
RECURSIVE Descending(_)
Descending(S) ==
    IF S = {} THEN <<>> ELSE <<SetMax(S)>> \o Descending(S \ {SetMax(S)})
RECURSIVE Ascending(_)
Ascending(S) ==
    IF S = {} THEN <<>> ELSE <<SetMin(S)>> \o Ascending(S \ {SetMin(S)})

BidOrder(b) == Descending(DOMAIN b.bids_)
AskOrder(b) == Ascending(DOMAIN b.asks_)

Min2(a, c) == IF a <= c THEN a ELSE c

\* the loops of store_previous_state / calculate_deep_ofi visit the first
\* min(size, 10) levels of a side
Visited(order) == Min2(Len(order), OfiLevels)

\* bool initialize_from_snapshot(const OrderBookSnapshot& snapshot)
InitializeFromSnapshot(b, snapshot) ==
    [b EXCEPT !.bids_ = snapshot.bids,
              !.asks_ = snapshot.asks,
              !.orders_ = EmptyMap,
              !.last_sequence_number_ = snapshot.sequence_number,
              !.is_initialized_ = TRUE]

\* void reset_gap_detection()
ResetGapDetection(b) == [b EXCEPT !.gap_detected_ = FALSE]

\* the part of handle_add / handle_modify that adds a quantity at a price
AddAtLevel(m, price, quantity) ==
    IF price \in DOMAIN m
    THEN [m EXCEPT ![price].quantity = @ + quantity,
                   ![price].order_count = @ + 1]
    ELSE Put(m, price, PriceLevel(price, quantity, 1))

\* the removal test left out (mutation of EraseIfEmpty)
EraseNever(m, price) == m

\* only the order count tested (mutation of EraseIfEmpty)
EraseIfNoOrders(m, price) ==
    IF m[price].order_count = 0 THEN Erase(m, price) ELSE m

\* "Remove price level if empty": erase when quantity <= 0 or order_count == 0
EraseIfEmpty(m, price) ==
    IF m[price].quantity <= 0 \/ m[price].order_count = 0
    THEN Erase(m, price)
    ELSE m

\* an order taken off its level with the level's order count left as it was
\* (mutation of RemoveFromLevel)
RemoveFromLevelKeepCount(m, price, quantity) ==
    IF price \in DOMAIN m
    THEN EraseIfEmpty([m EXCEPT ![price].quantity = @ - quantity], price)
    ELSE m

\* the part of handle_modify / handle_delete that takes an order off its level
RemoveFromLevel(m, price, quantity) ==
    IF price \in DOMAIN m
    THEN EraseIfEmpty([m EXCEPT ![price].quantity = @ - quantity,
                                ![price].order_count = @ - 1], price)
    ELSE m

\* bool handle_add(const OrderBookUpdate& update)
HandleAdd(b, u) ==
    LET order == [order_id |-> u.order_id, price |-> u.price,
                  quantity |-> u.quantity, is_bid |-> u.is_bid]
        b1 == [b EXCEPT !.orders_ = Put(b.orders_, u.order_id, order)]
    IN [ok |-> TRUE,
        b |-> IF u.is_bid
              THEN [b1 EXCEPT !.bids_ = AddAtLevel(b.bids_, u.price, u.quantity)]
              ELSE [b1 EXCEPT !.asks_ = AddAtLevel(b.asks_, u.price, u.quantity)]]

\* a MODIFY of a tracked order that leaves the old level as it was
\* (mutation of HandleModify)
HandleModifyOldLevelKept(b, u) ==
    IF u.order_id \notin DOMAIN b.orders_
    THEN HandleAdd(b, u)
    ELSE
      LET order == b.orders_[u.order_id]
          side == IF order.is_bid THEN b.bids_ ELSE b.asks_
          added == AddAtLevel(side, u.price, u.quantity)
          orders == [b.orders_ EXCEPT ![u.order_id].price = u.price,
                                      ![u.order_id].quantity = u.quantity]
      IN [ok |-> TRUE,
          b |-> IF order.is_bid
                THEN [b EXCEPT !.bids_ = added, !.orders_ = orders]
                ELSE [b EXCEPT !.asks_ = added, !.orders_ = orders]]

\* bool handle_modify(const OrderBookUpdate& update)
HandleModify(b, u) ==
    IF u.order_id \notin DOMAIN b.orders_
    THEN HandleAdd(b, u)
    ELSE
      LET order == b.orders_[u.order_id]
          side == IF order.is_bid THEN b.bids_ ELSE b.asks_
          removed == RemoveFromLevel(side, order.price, order.quantity)
          added == AddAtLevel(removed, u.price, u.quantity)
          orders == [b.orders_ EXCEPT ![u.order_id].price = u.price,
                                      ![u.order_id].quantity = u.quantity]
      IN [ok |-> TRUE,
          b |-> IF order.is_bid
                THEN [b EXCEPT !.bids_ = added, !.orders_ = orders]
                ELSE [b EXCEPT !.asks_ = added, !.orders_ = orders]]

\* a DELETE reported as done whether or not the order is tracked
\* (mutation of HandleDelete)
HandleDeleteAlwaysDone(b, u) ==
    IF u.order_id \notin DOMAIN b.orders_
    THEN [ok |-> TRUE, b |-> b]
    ELSE
      LET order == b.orders_[u.order_id]
          side == IF order.is_bid THEN b.bids_ ELSE b.asks_
          removed == RemoveFromLevel(side, order.price, order.quantity)
          orders == Erase(b.orders_, u.order_id)
      IN [ok |-> TRUE,
          b |-> IF order.is_bid
                THEN [b EXCEPT !.bids_ = removed, !.orders_ = orders]
                ELSE [b EXCEPT !.asks_ = removed, !.orders_ = orders]]

\* bool handle_delete(const OrderBookUpdate& update)
HandleDelete(b, u) ==
    IF u.order_id \notin DOMAIN b.orders_
    THEN [ok |-> FALSE, b |-> b]
    ELSE
      LET order == b.orders_[u.order_id]
          side == IF order.is_bid THEN b.bids_ ELSE b.asks_
          removed == RemoveFromLevel(side, order.price, order.quantity)
          orders == Erase(b.orders_, u.order_id)
      IN [ok |-> TRUE,
          b |-> IF order.is_bid
                THEN [b EXCEPT !.bids_ = removed, !.orders_ = orders]
                ELSE [b EXCEPT !.asks_ = removed, !.orders_ = orders]]

\* "Keep only recent window": at most 1000 entries, the oldest dropped
PressureWindow == 1000
\* a window that is never trimmed
KeepRecentUnbounded(w) == w

KeepRecent(w) == IF Len(w) > PressureWindow THEN Tail(w) ELSE w

\* an execution without tracked order takes the best level of the side
\* it trades against off the book (mutation of HandleExecute)
HandleExecuteAtBest(b, u) ==
    LET buy == IF u.is_bid THEN Append(b.recent_buy_volume_, u.quantity)
               ELSE b.recent_buy_volume_
        sell == IF u.is_bid THEN b.recent_sell_volume_
                ELSE Append(b.recent_sell_volume_, u.quantity)
        asks == IF u.is_bid /\ DOMAIN b.asks_ # {}
                THEN Erase(b.asks_, SetMin(DOMAIN b.asks_)) ELSE b.asks_
        bids == IF ~u.is_bid /\ DOMAIN b.bids_ # {}
                THEN Erase(b.bids_, SetMax(DOMAIN b.bids_)) ELSE b.bids_
    IN [ok |-> TRUE,
        b |-> [b EXCEPT !.recent_buy_volume_ = buy,
                        !.recent_sell_volume_ = sell,
                        !.asks_ = asks, !.bids_ = bids]]

\* bool handle_execute(const OrderBookUpdate& update)
HandleExecute(b, u) ==
    IF u.order_id \notin DOMAIN b.orders_
    THEN
      LET buy == IF u.is_bid THEN Append(b.recent_buy_volume_, u.quantity)
                 ELSE b.recent_buy_volume_
          sell == IF u.is_bid THEN b.recent_sell_volume_
                  ELSE Append(b.recent_sell_volume_, u.quantity)
      IN [ok |-> TRUE,
          b |-> [b EXCEPT !.recent_buy_volume_ = KeepRecent(buy),
                          !.recent_sell_volume_ = KeepRecent(sell)]]
    ELSE
      LET order == b.orders_[u.order_id]
          side == IF order.is_bid THEN b.bids_ ELSE b.asks_
          full == u.quantity >= order.quantity
          reduced == [side EXCEPT
                        ![order.price].quantity = @ - u.quantity,
                        ![order.price].order_count = IF full THEN @ - 1 ELSE @]
          newSide == EraseIfEmpty(reduced, order.price)
          orders == IF full THEN Erase(b.orders_, u.order_id)
                    ELSE [b.orders_ EXCEPT ![u.order_id].quantity = @ - u.quantity]
      IN [ok |-> TRUE,
          b |-> IF order.price \notin DOMAIN side THEN b
                ELSE IF order.is_bid
                THEN [b EXCEPT !.bids_ = newSide, !.orders_ = orders]
                ELSE [b EXCEPT !.asks_ = newSide, !.orders_ = orders]]

\* quantity of the i-th level (0-based) of a side in iteration order, 0 if
\* the side has no such level
QtyAt(m, order, i) == IF i < Len(order) THEN m[order[i + 1]].quantity ELSE 0

\* void store_previous_state(): only the slots of the levels that exist
\* are written; the other slots keep what they held
StorePreviousState(b) ==
    LET bo == BidOrder(b)
        ao == AskOrder(b)
    IN [b EXCEPT
          !.previous_bid_quantities_ =
              [i \in 0 .. OfiLevels - 1 |->
                 IF i < Visited(bo) THEN b.bids_[bo[i + 1]].quantity ELSE @[i]],
          !.previous_ask_quantities_ =
              [i \in 0 .. OfiLevels - 1 |->
                 IF i < Visited(ao) THEN b.asks_[ao[i + 1]].quantity ELSE @[i]]]

RECURSIVE SumTo(_, _)
\* sum of f[0] .. f[n-1]
SumTo(f, n) == IF n = 0 THEN 0 ELSE f[n - 1] + SumTo(f, n - 1)

\* DeepOFIFeatures calculate_deep_ofi(int64_t timestamp_ns)
\* (the integer-valued members; the ratios weighted_ofi, volume_imbalance,
\* depth_imbalance, mid and microprice are not modelled)
CalculateDeepOfi(b) ==
    LET bo == BidOrder(b)
        ao == AskOrder(b)
        bid_ofi == [i \in 0 .. OfiLevels - 1 |->
                      IF i < Visited(bo)
                      THEN b.bids_[bo[i + 1]].quantity
                             - b.previous_bid_quantities_[i]
                      ELSE 0]
        ask_ofi == [i \in 0 .. OfiLevels - 1 |->
                      IF i < Visited(ao)
                      THEN b.asks_[ao[i + 1]].quantity
                             - b.previous_ask_quantities_[i]
                      ELSE 0]
        level_ofi == [i \in 0 .. OfiLevels - 1 |-> bid_ofi[i] - ask_ofi[i]]
        buy == SumSeq(b.recent_buy_volume_)
        sell == SumSeq(b.recent_sell_volume_)
    IN [bid_ofi |-> bid_ofi, ask_ofi |-> ask_ofi,
        total_ofi |-> SumTo(level_ofi, OfiLevels),
        top_5_ofi |-> SumTo(level_ofi, 5),
        top_1_ofi |-> bid_ofi[0] - ask_ofi[0],
        buy_pressure |-> buy, sell_pressure |-> sell,
        net_pressure |-> buy - sell]

\* the switch of process_update
Dispatch(b, u) ==
    CASE u.type = "ADD" -> HandleAdd(b, u)
      [] u.type = "MODIFY" -> HandleModify(b, u)
      [] u.type = "DELETE" -> HandleDelete(b, u)
      [] u.type = "EXECUTE" -> HandleExecute(b, u)
      [] OTHER -> [ok |-> FALSE, b |-> b]

\* the gap test without the exemption of a last sequence number of 0
GapDetectedNoSentinel(b, u) ==
    /\ b.is_initialized_
    /\ u.sequence_number # b.last_sequence_number_ + 1

\* the gap test of process_update
GapDetected(b, u) ==
    /\ b.is_initialized_
    /\ u.sequence_number # b.last_sequence_number_ + 1
    /\ b.last_sequence_number_ # 0

\* bool process_update(const OrderBookUpdate& update)
ProcessUpdate(b, u) ==
    IF GapDetected(b, u)
    THEN [ret |-> FALSE,
          b |-> [b EXCEPT
                   !.gap_detected_ = TRUE,
                   !.missed_updates_ =
                       @ + (u.sequence_number - b.last_sequence_number_ - 1),
                   !.snapshot_requests_ = @ + 1]]
    ELSE
      LET r == Dispatch(StorePreviousState(b), u)
          b2 == [r.b EXCEPT !.last_sequence_number_ = u.sequence_number,
                            !.total_updates_ = @ + 1]
      IN IF r.ok
         THEN [ret |-> TRUE,
               b |-> [b2 EXCEPT !.current_ofi_ = CalculateDeepOfi(b2),
                                !.published_ = @ + 1]]
         ELSE [ret |-> FALSE, b |-> r.b]

\* bool needs_snapshot_recovery() const
needs_snapshot_recovery(b) == b.gap_detected_

\* The updates offered to process_update.  A field the handler of a type
\* never reads is held at one value: DELETE reads only the order id,
\* EXECUTE the id, the quantity and the side, SNAPSHOT nothing.
Update(t, id, p, q, bid, seq) ==
    [type |-> t, order_id |-> id, price |-> p, quantity |-> q,
     is_bid |-> bid, sequence_number |-> seq]
Updates ==
    {Update(t, id, p, q, bid, seq) :
        t \in {"ADD", "MODIFY"}, id \in OrderIds, p \in Prices,
        q \in Quantities, bid \in BOOLEAN, seq \in SeqNums}
    \cup {Update("DELETE", id, 1, 1, TRUE, seq) :
             id \in OrderIds, seq \in SeqNums}
    \cup {Update("EXECUTE", id, 1, q, bid, seq) :
             id \in OrderIds, q \in Quantities, bid \in BOOLEAN,
             seq \in SeqNums}
    \cup {Update("SNAPSHOT", 1, 1, 1, TRUE, seq) : seq \in SeqNums}

\* snapshots offered to initialize_from_snapshot: every level has a
\* positive quantity and a positive order count
SnapshotSides ==
    {EmptyMap,
     Put(Put(EmptyMap, 1, PriceLevel(1, 1, 1)), 2, PriceLevel(2, 2, 2))}
Snapshots ==
    [bids : SnapshotSides, asks : SnapshotSides, sequence_number : {0, 1}]

NoCall == [kind |-> "none", ret |-> FALSE, type |-> "none", seq |-> 0]

InitBook ==
    /\ book = NewBook
    /\ obLast = NoCall
    /\ obCalls = 0
    /\ balAdded = {}
    /\ balDeleted = {}

ProcessUpdateCall ==
    /\ obCalls < MaxCalls
    /\ \E u \in Updates :
         LET r == ProcessUpdate(book, u)
         IN /\ book' = r.b
            /\ obLast' = [kind |-> "update", ret |-> r.ret, type |-> u.type,
                          seq |-> u.sequence_number]
    /\ obCalls' = obCalls + 1
    /\ UNCHANGED <<balAdded, balDeleted>>

InitializeFromSnapshotCall ==
    /\ obCalls < MaxCalls
    /\ \E s \in Snapshots :
         /\ book' = InitializeFromSnapshot(book, s)
         /\ obLast' = [kind |-> "snapshot", ret |-> TRUE, type |-> "none",
                       seq |-> s.sequence_number]
    /\ obCalls' = obCalls + 1
    /\ UNCHANGED <<balAdded, balDeleted>>

ResetGapDetectionCall ==
    /\ obCalls < MaxCalls
    /\ book.gap_detected_
    /\ book' = ResetGapDetection(book)
    /\ obLast' = [kind |-> "reset", ret |-> TRUE, type |-> "none", seq |-> 0]
    /\ obCalls' = obCalls + 1
    /\ UNCHANGED <<balAdded, balDeleted>>

\* Balanced replay on a book that starts empty: consecutive sequence
\* numbers 1, 2, 3, ...; each order id is ADDed at most once and a tracked
\* id may be DELETEd once.
MaxBalancedIds == 3
BalancedIds == 1 .. MaxBalancedIds

BalancedCall(u) ==
    LET r == ProcessUpdate(book, u)
    IN /\ book' = r.b
       /\ obLast' = [kind |-> "update", ret |-> r.ret, type |-> u.type,
                     seq |-> u.sequence_number]
       /\ obCalls' = obCalls + 1

BalancedAdd ==
    \E id \in BalancedIds \ balAdded, p \in Prices, q \in Quantities,
       bid \in BOOLEAN :
         /\ BalancedCall(Update("ADD", id, p, q, bid, obCalls + 1))
         /\ balAdded' = balAdded \cup {id}
         /\ UNCHANGED balDeleted

BalancedDelete ==
    \E id \in balAdded \ balDeleted :
         /\ BalancedCall(Update("DELETE", id, 1, 1, TRUE, obCalls + 1))
         /\ balDeleted' = balDeleted \cup {id}
         /\ UNCHANGED balAdded

NextBalanced ==
    \/ BalancedAdd /\ UNCHANGED notBook
    \/ BalancedDelete /\ UNCHANGED notBook

\* A well-formed feed into a book as constructed: quantities are positive,
\* an ADD names an order id that is not tracked, an EXECUTE of a tracked
\* order takes no more than its remaining quantity.
MaxFeedCalls == 4

WellFormedUpdate ==
    /\ obCalls < MaxFeedCalls
    /\ \E type \in {"ADD", "MODIFY", "DELETE", "EXECUTE"}, id \in OrderIds,
          p \in Prices, q \in Quantities, bid \in BOOLEAN :
         /\ type = "ADD" => id \notin DOMAIN book.orders_
         /\ (type = "EXECUTE" /\ id \in DOMAIN book.orders_)
              => q <= book.orders_[id].quantity
         /\ BalancedCall(Update(type, id, p, q, bid, obCalls + 1))
    /\ UNCHANGED <<balAdded, balDeleted>>

NextWellFormed ==
    \/ WellFormedUpdate /\ UNCHANGED notBook

\* A gap-free feed: the book is loaded from a snapshot, and every update
\* then passed to process_update carries the sequence number that follows
\* the one before it (the snapshot's, for the first update).
ConsecutiveSnapshot ==
    /\ obCalls = 0
    /\ InitializeFromSnapshotCall

ConsecutiveUpdate ==
    /\ obLast.kind \in {"snapshot", "update"}
    /\ obCalls < MaxCalls
    /\ \E u \in Updates :
         /\ u.sequence_number = obLast.seq + 1
         /\ BalancedCall(u)
    /\ UNCHANGED <<balAdded, balDeleted>>

NextConsecutive ==
    \/ ConsecutiveSnapshot /\ UNCHANGED notBook
    \/ ConsecutiveUpdate /\ UNCHANGED notBook

NextBook ==
    \/ ProcessUpdateCall /\ UNCHANGED notBook
    \/ InitializeFromSnapshotCall /\ UNCHANGED notBook
    \/ ResetGapDetectionCall /\ UNCHANGED notBook

-----------------------------------------------------------------------------
(***************************************************************************)
(* BacktestingEngine                                                       *)
(*                                                                         *)
(* bt is the engine object.  Order book imbalance (a double in [-1, 1]) is *)
(* carried in basis points (1e-4); avg_obi_strength, the quotient of two   *)
(* doubles, is the exact fraction [num, den].  Capital, P&L, position and  *)
(* the latency / slippage statistics are updated by the code but never     *)
(* read by the filter, the order submission or the fill scheduling and are *)
(* left out; what the quoting strategy and the risk check answer on a      *)
(* persistent tick is the input tradable.                                  *)
(***************************************************************************)

\* bounds of the model
MaxEvents == 16

\* const int MINIMUM_PERSISTENCE_TICKS = 12
MINIMUM_PERSISTENCE_TICKS == 12
\* const double OBI_THRESHOLD = 0.09, in basis points
OBI_THRESHOLD == 900
\* current_strength >= 0.60 * avg_strength, in percent
QualityPercent == 60
\* const int64_t MINIMUM_LATENCY_FLOOR_NS = 550
MINIMUM_LATENCY_FLOOR_NS == 550

\* config_.simulated_latency_ns
Latencies == {0, 300, 550, 800}
\* distance in ns between one event's timestamp_ns and the next (the event
\* list is sorted by load_historical_data): below the floor, so that an
\* order meets fill checks both before and after its latency has elapsed
TickGaps == {300}
\* imbalances a tick can carry: weak, strong, stronger, strong the other way
ObiValues == {500, 1000, 3000, -1000}

Abs(x) == IF x < 0 THEN -x ELSE x
Max2(a, c) == IF a >= c THEN a ELSE c

\* struct TemporalFilterState, as default-constructed and as reset() leaves it
FilterReset ==
    [accumulated_obi |-> 0, signal_start_time_ns |-> 0,
     confirmation_ticks |-> 0, last_obi_direction |-> 0,
     max_obi_strength |-> 0, avg_obi_strength |-> [num |-> 0, den |-> 1]]

\* current_direction = (current_obi > 0) ? 1.0 : -1.0
Direction(current_obi) == IF current_obi > 0 THEN 1 ELSE -1

\* every strong tick taken as confirming (mutation of DirectionConsistent)
DirectionNeverChecked(f, current_direction) == TRUE

\* direction_consistent
DirectionConsistent(f, current_direction) ==
    \/ current_direction = f.last_obi_direction
    \/ f.confirmation_ticks = 0

\* the strength test left out (mutation of QualityMaintained)
QualityNeverChecked(current_obi, avg) == TRUE

\* current_strength >= 0.60 * avg_strength, both absolute values
QualityMaintained(current_obi, avg) ==
    100 * Abs(current_obi) * avg.den >= QualityPercent * Abs(avg.num)

\* the temporal filter of generate_trading_signal: the new filter state and
\* signal_is_persistent
TemporalFilter(f, current_obi, current_time_ns) ==
    IF Abs(current_obi) > OBI_THRESHOLD
    THEN LET current_direction == Direction(current_obi) IN
         IF DirectionConsistent(f, current_direction)
         THEN LET started ==
                      IF f.confirmation_ticks = 0
                      THEN [f EXCEPT !.signal_start_time_ns = current_time_ns,
                                     !.last_obi_direction = current_direction]
                      ELSE f
                  acc == started.accumulated_obi + current_obi
                  n == started.confirmation_ticks + 1
                  g == [started EXCEPT
                          !.accumulated_obi = acc,
                          !.confirmation_ticks = n,
                          !.max_obi_strength = Max2(@, Abs(current_obi)),
                          !.avg_obi_strength = [num |-> acc, den |-> n]]
              IN [filter |-> g,
                  persistent |-> /\ n >= MINIMUM_PERSISTENCE_TICKS
                                 /\ QualityMaintained(current_obi,
                                                      g.avg_obi_strength)]
         ELSE [filter |-> [accumulated_obi |-> current_obi,
                           signal_start_time_ns |-> current_time_ns,
                           confirmation_ticks |-> 1,
                           last_obi_direction |-> current_direction,
                           max_obi_strength |-> Abs(current_obi),
                           avg_obi_strength |->
                               [num |-> Abs(current_obi), den |-> 1]],
               persistent |-> FALSE]
    ELSE [filter |-> FilterReset, persistent |-> FALSE]

\* generate_trading_signal: the filter, then (only on a persistent tick) the
\* quotes and the risk check, whose verdict is tradable
GenerateTradingSignal(e, current_obi, tradable) ==
    LET t == TemporalFilter(e.temporal_filter_, current_obi,
                            e.current_time_ns_)
    IN [engine |-> [e EXCEPT !.temporal_filter_ = t.filter],
        persistent |-> t.persistent,
        quoted |-> t.persistent,
        should_trade |-> t.persistent /\ tradable]

\* submit_order: the order joins active_orders_ stamped with current_time_ns_
SubmitOrder(e, side) ==
    [e EXCEPT !.order_id_counter_ = @ + 1,
              !.active_orders_ =
                  Append(@, [order_id |-> e.order_id_counter_, side |-> side,
                             submit_time_ns |-> e.current_time_ns_])]

\* execute_trading_decision: a bid then an ask (quote sizes are >= 100 and a
\* tradable signal has positive prices)
ExecuteTradingDecision(e) == SubmitOrder(SubmitOrder(e, "BUY"), "SELL")

\* the configured latency taken as it is (mutation of EnforcedLatency)
EnforcedLatencyNoFloor(simulated_latency_ns) == simulated_latency_ns

\* enforced_latency = std::max(config_.simulated_latency_ns, 550)
EnforcedLatency(simulated_latency_ns) ==
    Max2(simulated_latency_ns, MINIMUM_LATENCY_FLOOR_NS)

\* time_since_submit >= enforced_latency
Due(e, o) ==
    e.current_time_ns_ - o.submit_time_ns
        >= EnforcedLatency(e.simulated_latency_ns)

\* orders of active_orders_ that process_fill_check hands to the fill model
DueOrders(e) ==
    LET IsDue(o) == Due(e, o) IN SelectSeq(e.active_orders_, IsDue)

OrderIdsOf(s) == {s[i].order_id : i \in 1 .. Len(s)}

\* process_fill_check: every due order leaves active_orders_; those whose
\* random draw is below the fill probability (wins) are filled at
\* current_time_ns_, the others are cancelled
ProcessFillCheck(e, wins) ==
    LET IsDue(o) == Due(e, o)
        NotDue(o) == ~Due(e, o)
        Won(o) == Due(e, o) /\ o.order_id \in wins
        Fill(o) == [order_id |-> o.order_id, side |-> o.side,
                    submit_time_ns |-> o.submit_time_ns,
                    fill_time_ns |-> e.current_time_ns_]
        won == SelectSeq(e.active_orders_, Won)
    IN [e EXCEPT !.active_orders_ = SelectSeq(@, NotDue),
                 !.filled_orders_ = @ \o [i \in 1 .. Len(won) |-> Fill(won[i])]]

\* the engine before its constructor has run
Unconstructed ==
    [pc |-> "unconstructed", simulated_latency_ns |-> 0,
     current_time_ns_ |-> 0, order_id_counter_ |-> 0, first_tick |-> FALSE,
     consumed |-> 0, active_orders_ |-> <<>>, filled_orders_ |-> <<>>,
     temporal_filter_ |-> FilterReset]

\* what the last loop iteration did
NoTick ==
    [obi |-> 0, branch |-> "none", before |-> 0, persistent |-> FALSE,
     quoted |-> FALSE, submitted |-> {}, offered |-> {}]

\* the run of strong same-sign imbalances that ends at the last processed
\* tick: its length, the sum of its imbalances and its sign
NoRun == [len |-> 0, sum |-> 0, sign |-> 0]

ExtendRun(r, current_obi) ==
    IF Abs(current_obi) <= OBI_THRESHOLD THEN NoRun
    ELSE IF r.len > 0 /\ r.sign = Direction(current_obi)
         THEN [len |-> r.len + 1, sum |-> r.sum + current_obi, sign |-> r.sign]
         ELSE [len |-> 1, sum |-> current_obi,
               sign |-> Direction(current_obi)]

InitBacktest ==
    /\ bt = Unconstructed
    /\ btObs = NoTick
    /\ btRun = NoRun

\* BacktestingEngine(config)
ConstructEngine ==
    /\ bt.pc = "unconstructed"
    /\ \E latency \in Latencies :
          bt' = [Unconstructed EXCEPT !.pc = "constructed",
                                      !.simulated_latency_ns = latency,
                                      !.order_id_counter_ = 1]
    /\ UNCHANGED <<btObs, btRun>>

\* run_backtest, up to the loop: orders cleared, the filter kept
RunBacktestBegin ==
    /\ bt.pc = "constructed"
    /\ bt' = [bt EXCEPT !.pc = "running", !.first_tick = TRUE,
                        !.active_orders_ = <<>>, !.filled_orders_ = <<>>]
    /\ UNCHANGED <<btObs, btRun>>

\* the iteration for the first event: only the clock and previous_tick move
FirstEvent ==
    /\ bt.pc = "running" /\ bt.first_tick /\ bt.consumed < MaxEvents
    /\ \E timestamp_ns \in TickGaps :
          bt' = [bt EXCEPT !.current_time_ns_ = timestamp_ns,
                           !.first_tick = FALSE, !.consumed = @ + 1]
    /\ UNCHANGED <<btObs, btRun>>

\* which branch of the filter a tick takes
Branch(f, current_obi) ==
    IF Abs(current_obi) <= OBI_THRESHOLD THEN "weak"
    ELSE IF DirectionConsistent(f, Direction(current_obi)) THEN "confirm"
         ELSE "flip"

\* one iteration of the replay loop for a later event: the clock, the
\* intensity update (whose outcome is the tick's imbalance current_obi), the
\* signal, the orders, the fill check
ProcessEvent ==
    /\ bt.pc = "running" /\ ~bt.first_tick /\ bt.consumed < MaxEvents
    /\ \E gap \in TickGaps, current_obi \in ObiValues, tradable \in BOOLEAN :
          LET e1 == [bt EXCEPT !.current_time_ns_ = @ + gap,
                               !.consumed = @ + 1]
              s == GenerateTradingSignal(e1, current_obi, tradable)
              e2 == IF s.should_trade THEN ExecuteTradingDecision(s.engine)
                    ELSE s.engine
              due == DueOrders(e2)
          IN /\ (tradable => s.persistent)
             /\ \E wins \in SUBSET OrderIdsOf(due) :
                   /\ bt' = ProcessFillCheck(e2, wins)
                   /\ btObs' =
                        [obi |-> current_obi,
                         branch |-> Branch(bt.temporal_filter_, current_obi),
                         before |-> bt.temporal_filter_.confirmation_ticks,
                         persistent |-> s.persistent,
                         quoted |-> s.quoted,
                         submitted |-> OrderIdsOf(e2.active_orders_)
                                         \ OrderIdsOf(bt.active_orders_),
                         offered |-> {[order_id |-> due[i].order_id,
                                       waited |-> e2.current_time_ns_
                                                   - due[i].submit_time_ns]
                                      : i \in 1 .. Len(due)}]
             /\ btRun' = ExtendRun(btRun, current_obi)

\* the loop ends with the event list
RunBacktestEnd ==
    /\ bt.pc = "running" /\ bt.consumed = MaxEvents
    /\ bt' = [bt EXCEPT !.pc = "done"]
    /\ UNCHANGED <<btObs, btRun>>

NextBacktest ==
    \/ ConstructEngine /\ UNCHANGED notBacktest
    \/ RunBacktestBegin /\ UNCHANGED notBacktest
    \/ FirstEvent /\ UNCHANGED notBacktest
    \/ ProcessEvent /\ UNCHANGED notBacktest
    \/ RunBacktestEnd /\ UNCHANGED notBacktest

-----------------------------------------------------------------------------
(***************************************************************************)
(* HawkesIntensityEngine, and two executions of the same backtest          *)
(*                                                                         *)
(* Wall-clock readings (now(), a steady_clock time point) are integers in  *)
(* microseconds.  Intensities are in units of the baseline 0.5; the kernel *)
(* (beta + tau)^(-1.5) with beta = 1 us is computed in fixed point, scaled  *)
(* by KernelScale, through an integer square root.                         *)
(***************************************************************************)

\* bound of the model: events replayed by each of the two executions
MaxReplay == 14

\* HawkesIntensityEngine(0.5, 0.5, 0.3, 0.1, 1e-6, 1.5, 1000), in the units
\* above: mu = 1, alpha = 0.3e9 / 0.5 / KernelScale and 0.1e9 / 0.5 / KernelScale
KernelScale == 100000
BaselineIntensity == 1
AlphaSelf == 6000
AlphaCross == 2000
MaxHistory == 1000
\* BacktestConfig(): simulated_latency_ns(500)
DefaultLatency == 500

\* wall-clock time one iteration of the replay loop takes, in microseconds
WallGaps == {1, 20}

Sides == {"BUY", "SELL"}

RECURSIVE IsqrtBetween(_, _, _)
\* largest r with r * r <= x, for lo * lo <= x < hi * hi
IsqrtBetween(x, lo, hi) ==
    IF hi - lo <= 1 THEN lo
    ELSE LET mid == (lo + hi) \div 2 IN
         IF mid * mid <= x THEN IsqrtBetween(x, mid, hi)
         ELSE IsqrtBetween(x, lo, mid)

Isqrt(x) == IsqrtBetween(x, 0, 46340)

\* power_law_kernel: pow(beta_ + tau, -gamma_), tau in microseconds
PowerLawKernel(tau) ==
    IF tau < 0 THEN 0
    ELSE (KernelScale * 100) \div ((tau + 1) * Isqrt((tau + 1) * 10000))

RECURSIVE Excitation(_, _)
\* sum of the kernel over the events of a deque that lie before eval_time
Excitation(events, eval_time) ==
    IF events = <<>> THEN 0
    ELSE (IF Head(events) < eval_time
          THEN PowerLawKernel(eval_time - Head(events)) ELSE 0)
         + Excitation(Tail(events), eval_time)

\* compute_intensity
ComputeIntensity(h, side, eval_time) ==
    LET same == IF side = "BUY" THEN h.buy_events_ ELSE h.sell_events_
        cross == IF side = "BUY" THEN h.sell_events_ ELSE h.buy_events_
    IN BaselineIntensity + AlphaSelf * Excitation(same, eval_time)
                         + AlphaCross * Excitation(cross, eval_time)

\* push_back, and pop_front beyond max_history_
PushBounded(events, t) ==
    LET pushed_ == Append(events, t) IN
    IF Len(pushed_) > MaxHistory THEN Tail(pushed_) ELSE pushed_

NewHawkes ==
    [current_time_ |-> 0, buy_events_ |-> <<>>, sell_events_ |-> <<>>,
     intensity_buy_ |-> BaselineIntensity,
     intensity_sell_ |-> BaselineIntensity]

\* HawkesIntensityEngine::update followed by recalculate_intensity
HawkesUpdate(h, arrival_time, event_type) ==
    LET h1 == IF event_type = "BUY"
              THEN [h EXCEPT !.current_time_ = arrival_time,
                             !.buy_events_ = PushBounded(@, arrival_time)]
              ELSE [h EXCEPT !.current_time_ = arrival_time,
                             !.sell_events_ = PushBounded(@, arrival_time)]
    IN [h1 EXCEPT
          !.intensity_buy_ = ComputeIntensity(h1, "BUY", arrival_time),
          !.intensity_sell_ = ComputeIntensity(h1, "SELL", arrival_time)]

\* current_obi = (buy - sell) / total, in basis points, rounded towards zero
CurrentObi(h) ==
    LET total == h.intensity_buy_ + h.intensity_sell_
        diff == h.intensity_buy_ - h.intensity_sell_
        magnitude == IF total < 200000 THEN (Abs(diff) * 10000) \div total
                     ELSE Abs(diff) \div (total \div 10000)
    IN IF diff < 0 THEN -magnitude ELSE magnitude

\* one execution: its engine, its intensity engine, its wall clock, the time
\* its iterations take, and what it has logged
NewExecution(rate) ==
    [engine |-> [Unconstructed EXCEPT !.pc = "running",
                                      !.simulated_latency_ns = DefaultLatency,
                                      !.order_id_counter_ = 1,
                                      !.first_tick = TRUE],
     hawkes |-> NewHawkes, wall |-> 0, rate |-> rate, log |-> <<>>]

\* the iteration for the first event
ReplayFirst(r, gap) ==
    [r EXCEPT !.engine = [@ EXCEPT !.current_time_ns_ = gap,
                                   !.first_tick = FALSE, !.consumed = @ + 1]]

\* one iteration of the replay loop: arrival_time = now(), the intensity
\* update, the signal from the intensities, the orders, the fill check
ReplayIteration(r, gap, event_type, tradable, wins) ==
    LET wall == r.wall + r.rate
        h == HawkesUpdate(r.hawkes, wall, event_type)
        e1 == [r.engine EXCEPT !.current_time_ns_ = @ + gap,
                               !.consumed = @ + 1]
        s == GenerateTradingSignal(e1, CurrentObi(h), tradable)
        e2 == IF s.should_trade THEN ExecuteTradingDecision(s.engine)
              ELSE s.engine
        due == OrderIdsOf(DueOrders(e2))
        e3 == ProcessFillCheck(e2, wins)
        entry == [event |-> e1.consumed, should_trade |-> s.should_trade,
                  submitted |-> OrderIdsOf(e2.active_orders_)
                                  \ OrderIdsOf(r.engine.active_orders_),
                  filled |-> due \cap wins, cancelled |-> due \ wins]
    IN [r EXCEPT !.engine = e3, !.hawkes = h, !.wall = wall,
                 !.log = IF s.should_trade \/ due # {}
                         THEN Append(@, entry) ELSE @]

InitDeterminism == det = [pc |-> "idle", run |-> <<>>]

\* two engines are constructed with the same configuration and seed; each
\* execution runs at its own speed
StartExecutions ==
    /\ det.pc = "idle"
    /\ \E rate1 \in WallGaps, rate2 \in WallGaps :
          det' = [pc |-> "first",
                  run |-> <<NewExecution(rate1), NewExecution(rate2)>>]

\* both executions take the first event of the file
ReplayFirstEvent ==
    /\ det.pc = "first"
    /\ \E gap \in TickGaps :
          det' = [pc |-> "loop",
                  run |-> <<ReplayFirst(det.run[1], gap),
                            ReplayFirst(det.run[2], gap)>>]

\* both executions take the next event of the file: the same timestamp and
\* trade side, the same verdict of the strategy and risk check for the tick,
\* the same draws of the seeded generator
ReplayNextEvent ==
    /\ det.pc = "loop"
    /\ det.run[1].engine.consumed < MaxReplay
    /\ \E gap \in TickGaps, event_type \in Sides, tradable \in BOOLEAN,
          wins \in SUBSET (OrderIdsOf(det.run[1].engine.active_orders_)
                           \cup OrderIdsOf(det.run[2].engine.active_orders_)) :
          det' = [det EXCEPT
                    !.run = <<ReplayIteration(det.run[1], gap, event_type,
                                              tradable, wins),
                              ReplayIteration(det.run[2], gap, event_type,
                                              tradable, wins)>>]

\* the event file is exhausted
ReplayEnd ==
    /\ det.pc = "loop"
    /\ det.run[1].engine.consumed = MaxReplay
    /\ det' = [det EXCEPT !.pc = "done"]

NextDeterminism ==
    \/ StartExecutions /\ UNCHANGED notDeterminism
    \/ ReplayFirstEvent /\ UNCHANGED notDeterminism
    \/ ReplayNextEvent /\ UNCHANGED notDeterminism
    \/ ReplayEnd /\ UNCHANGED notDeterminism

-----------------------------------------------------------------------------
(***************************************************************************)
(* DynamicMMStrategy::calculate_quotes                                     *)
(*                                                                         *)
(* Prices are integers in units of a quarter tick.  The strategy's         *)
(* parameters enter through two quantities of the same unit: risk, the     *)
(* product gamma * sigma^2 * (T - t) (penalty per share of inventory and   *)
(* time component of the spread), and arrival, the term (2/gamma) *        *)
(* ln(1 + gamma/k).  The skew tanh(2 q / max_inventory) is carried in      *)
(* percent.  round_to_tick divides two doubles before rounding: a quotient *)
(* that lies exactly on a half is computed within one rounding error of    *)
(* it and falls to either side.                                            *)
(***************************************************************************)

\* bound of the model: mid prices, in quarter ticks
MaxMid == 12

\* tick_size_, in quarter ticks
TickSize == 4
\* min_spread_ = tick_size * 2.0
MinSpread == TickSize * 2

MidPrices == 0 .. MaxMid
TimesRemaining == {0, 600}
Inventories == {-10000, -275, 0, 275, 10000}
RiskTerms == {0, 1}
ArrivalTerms == {1, 8, 13}
LatencyCosts == {0, 5}

\* calculate_inventory_skew: tanh(2 * inventory / max_inventory_), in percent
InventorySkew(inventory) ==
    CASE inventory = 0 -> 0
      [] inventory = 275 -> 50
      [] inventory = -275 -> -50
      [] inventory >= 10000 -> 100
      [] inventory <= -10000 -> -100

\* round_to_tick as it would be in exact arithmetic: a half goes away from
\* zero
RoundToTickExact(num, den, low) ==
    LET unit == TickSize * den
        q == num \div unit
        r == num - q * unit
    IN IF 2 * r > unit THEN (q + 1) * TickSize
       ELSE IF 2 * r < unit THEN q * TickSize
       ELSE IF num >= 0 THEN (q + 1) * TickSize ELSE q * TickSize

\* round_to_tick: std::round(price / tick_size_) * tick_size_ for the price
\* num / den; low tells on which side of a half the double quotient falls
RoundToTick(num, den, low) ==
    LET unit == TickSize * den
        q == num \div unit
        r == num - q * unit
    IN IF 2 * r > unit THEN (q + 1) * TickSize
       ELSE IF 2 * r < unit THEN q * TickSize
       ELSE IF low THEN q * TickSize ELSE (q + 1) * TickSize

NoQuotes ==
    [called |-> FALSE, mid |-> 0, inventory |-> 0, time_remaining |-> 0,
     latency_cost |-> 0, bid_price |-> 0, ask_price |-> 0, spread |-> 0,
     min_total_spread |-> 0, total_spread |-> 0, bid_raw |-> 0, ask_raw |-> 0]

\* calculate_quotes.  The spread widened for the latency cost is computed
\* after half_spread has been taken and reaches neither price.
CalculateQuotes(mid, inventory, time_remaining, latency_cost, risk, arrival, low_bid, low_ask) ==
    IF mid <= 0 \/ time_remaining <= 0
    THEN [called |-> TRUE, mid |-> mid, inventory |-> inventory,
          time_remaining |-> time_remaining, latency_cost |-> latency_cost,
          bid_price |-> 0, ask_price |-> 0, spread |-> 0,
          min_total_spread |-> 0, total_spread |-> 0,
          bid_raw |-> 0, ask_raw |-> 0]
    ELSE LET reservation_price == mid - inventory * risk
             total_spread == Max2(risk + arrival, MinSpread)
             \* step 3: half_spread = total_spread / 2.0 is a const local,
             \* taken here; the local total_spread is widened afterwards
             \* and not read again
             widened == IF 2 * latency_cost > total_spread
                        THEN total_spread + (2 * latency_cost - total_spread)
                        ELSE total_spread
             skew == InventorySkew(inventory)
             \* prices over the denominator 200: half_spread = total / 2,
             \* bid_spread = half_spread * (1 - skew / 100)
             bid_raw == 200 * reservation_price - total_spread * (100 - skew)
             ask_raw == 200 * reservation_price + total_spread * (100 + skew)
             bid == RoundToTick(bid_raw, 200, low_bid)
             ask == RoundToTick(ask_raw, 200, low_ask)
             bid_price == IF bid >= ask THEN ask - TickSize ELSE bid
         IN [called |-> TRUE, mid |-> mid, inventory |-> inventory,
             time_remaining |-> time_remaining,
             latency_cost |-> latency_cost,
             bid_price |-> bid_price, ask_price |-> ask,
             spread |-> ask - bid_price,
             min_total_spread |-> total_spread, total_spread |-> widened,
             bid_raw |-> bid_raw, ask_raw |-> ask_raw]

InitQuotes == mm = NoQuotes

\* a call of calculate_quotes (a const method: calls do not affect each
\* other) on a strategy with some parameters
CalculateQuotesCall ==
    /\ ~mm.called
    /\ \E mid \in MidPrices, inventory \in Inventories,
          time_remaining \in TimesRemaining, latency_cost \in LatencyCosts,
          risk \in RiskTerms, arrival \in ArrivalTerms,
          low_bid \in BOOLEAN, low_ask \in BOOLEAN :
           mm' = CalculateQuotes(mid, inventory, time_remaining, latency_cost,
                                 risk, arrival, low_bid, low_ask)

NextQuotes ==
    \/ CalculateQuotesCall /\ UNCHANGED notQuotes

-----------------------------------------------------------------------------
(***************************************************************************)
(* FillProbabilityModel and the fill decision of process_fill_check        *)
(*                                                                         *)
(* A probability is an integer in units of 1e-4 (ProbOne = 1.0); the       *)
(* argument of exp is in thousandths; exp(-x) is computed in fixed point   *)
(* by squaring from exp(-0.001).  Prices are in half ticks of 0.005, so    *)
(* that the mid of an even bid and ask is whole.                           *)
(***************************************************************************)

\* bound of the model: queue positions an order can have
MaxQueuePosition == 2

ProbOne == 10000
\* exp(-0.001), in units of 1e-4
ExpMilli == 9990
\* FillModelParameters(): base 0.70, decay 0.15, spread 0.05, volatility
\* 0.10, adverse selection 0.20, latency 0.001 per microsecond
BaseFillProbability == 7000
QueuePositionDecayMilli == 150
SpreadSensitivityMilli == 50
VolatilityImpactMilli == 100
AdverseSelectionPenalty == 2000
LatencyPenaltyMilliPerUs == 1

RECURSIVE ExpNeg(_)
\* std::exp(-m / 1000)
ExpNeg(m) ==
    IF m <= 0 THEN ProbOne
    ELSE IF m % 2 = 0
         THEN LET h == ExpNeg(m \div 2) IN (h * h) \div ProbOne
         ELSE (ExpNeg(m - 1) * ExpMilli) \div ProbOne

Scale(prob, factor) == (prob * factor) \div ProbOne

\* 5. latency impact: exp(-latency_penalty_per_us * latency_us)
LatencyFactor(latency_us) == ExpNeg(LatencyPenaltyMilliPerUs * latency_us)

\* calculate_fill_probability; volatility in hundredths
CalculateFillProbability(side, price, tick, queue_position, volatility, latency_us) ==
    LET p1 == Scale(BaseFillProbability,
                    ExpNeg(QueuePositionDecayMilli * queue_position))
        spread == tick.ask_price - tick.bid_price
        \* spread_sensitivity * spread_bps, in thousandths
        spread_arg == (SpreadSensitivityMilli * 10000 * spread)
                         \div tick.mid_price
        p2 == Scale(p1, ExpNeg(spread_arg))
        p3 == Scale(p2, ExpNeg((VolatilityImpactMilli * volatility) \div 100))
        p4 == IF side = "BUY"
              THEN IF price >= tick.ask_price THEN ProbOne
                   ELSE IF price < tick.bid_price THEN p3 \div 10 ELSE p3
              ELSE IF price <= tick.bid_price THEN ProbOne
                   ELSE IF price > tick.ask_price THEN p3 \div 10 ELSE p3
        p5 == Scale(p4, LatencyFactor(latency_us))
        adverse_move == \/ side = "BUY" /\ tick.mid_price > price
                        \/ side = "SELL" /\ tick.mid_price < price
        p6 == IF adverse_move
              THEN Scale(p5, ProbOne - AdverseSelectionPenalty) ELSE p5
    IN IF p6 < 0 THEN 0 ELSE IF p6 > ProbOne THEN ProbOne ELSE p6

\* markets: 100.00 / 100.02 and 100.00 / 100.00 (locked), in half ticks
FillTicks ==
    {[bid_price |-> 20000, ask_price |-> 20004, mid_price |-> 20002],
     [bid_price |-> 20000, ask_price |-> 20000, mid_price |-> 20000]}
FillPrices == {19998, 20000, 20002, 20004, 20006}
QueuePositions == 0 .. MaxQueuePosition
\* time_since_submit / 1000
LatenciesUs == {0, 1, 500}
\* estimate_current_volatility: the default 0.20
Volatilities == {20}
\* static_cast<double>(std::rand()) / RAND_MAX, in units of 1e-4
RandomDraws == {0, 5000, 9999, 10000}

NoFill ==
    [called |-> FALSE, side |-> "BUY", price |-> 0,
     tick |-> [bid_price |-> 0, ask_price |-> 0, mid_price |-> 0],
     latency_us |-> 0, random_draw |-> 0, fill_prob |-> 0, filled |-> FALSE]

InitFill == fm = NoFill

\* the decision process_fill_check takes for one due order: the fill
\* probability, one draw, filled if random_draw < fill_prob
FillDecision ==
    /\ ~fm.called
    /\ \E side \in Sides, price \in FillPrices, tick \in FillTicks,
          queue_position \in QueuePositions, volatility \in Volatilities,
          latency_us \in LatenciesUs, random_draw \in RandomDraws :
           LET fill_prob == CalculateFillProbability(side, price, tick,
                                queue_position, volatility, latency_us)
           IN fm' = [called |-> TRUE, side |-> side, price |-> price,
                     tick |-> tick, latency_us |-> latency_us,
                     random_draw |-> random_draw, fill_prob |-> fill_prob,
                     filled |-> random_draw < fill_prob]

NextFill ==
    \/ FillDecision /\ UNCHANGED notFill

-----------------------------------------------------------------------------
(***************************************************************************)
(* CompileTimeRiskChecker<RiskPolicy>                                      *)
(*                                                                         *)
(* Positions, sizes, P&L and spreads are whole numbers; the values drawn   *)
(* lie on and next to each limit of each policy.                           *)
(***************************************************************************)

RiskPolicies == {"StrictRiskPolicy", "ModerateRiskPolicy", "AggressiveRiskPolicy"}

\* RiskParameters<RiskPolicy>
RiskParameters(policy) ==
    CASE policy = "StrictRiskPolicy" ->
             [MAX_POSITION_SIZE |-> 100, MAX_ORDER_SIZE |-> 10,
              MAX_DAILY_LOSS |-> 10000, MIN_SPREAD_BPS |-> 5,
              ALLOW_NAKED_SHORTS |-> FALSE]
      [] policy = "ModerateRiskPolicy" ->
             [MAX_POSITION_SIZE |-> 500, MAX_ORDER_SIZE |-> 50,
              MAX_DAILY_LOSS |-> 50000, MIN_SPREAD_BPS |-> 2,
              ALLOW_NAKED_SHORTS |-> FALSE]
      [] policy = "AggressiveRiskPolicy" ->
             [MAX_POSITION_SIZE |-> 1000, MAX_ORDER_SIZE |-> 100,
              MAX_DAILY_LOSS |-> 100000, MIN_SPREAD_BPS |-> 1,
              ALLOW_NAKED_SHORTS |-> TRUE]

RiskPositions == {-1000, -500, -100, -95, 0, 1, 95, 100, 495, 500, 995, 1000}
RiskOrderSizes == {1, 5, 6, 10, 11, 50, 100}
RiskDailyPnls == {-100001, -100000, -50001, -10001, -10000, 0}
RiskSpreads == {0, 1, 2, 5}

\* the position limit test with the order's side ignored (mutation of
\* NewPosition)
NewPositionUnsigned(current_position, order_size, side) ==
    current_position + order_size

\* current_position + (side == Side::BUY ? order_size : -order_size)
NewPosition(current_position, order_size, side) ==
    current_position + (IF side = "BUY" THEN order_size ELSE -order_size)

\* the naked short test left out (mutation of NakedShort)
NakedShortAllowed(Params, current_position, side) == FALSE

\* if constexpr (!Params::ALLOW_NAKED_SHORTS): a SELL from a position <= 0
NakedShort(Params, current_position, side) ==
    /\ ~Params.ALLOW_NAKED_SHORTS
    /\ side = "SELL" /\ current_position <= 0

\* CompileTimeRiskChecker<RiskPolicy>::check_order
CheckOrder(policy, current_position, order_size, side, daily_pnl, spread_bps) ==
    LET Params == RiskParameters(policy)
        new_position == NewPosition(current_position, order_size, side)
    IN IF Abs(new_position) > Params.MAX_POSITION_SIZE THEN FALSE
       ELSE IF order_size > Params.MAX_ORDER_SIZE THEN FALSE
       ELSE IF daily_pnl < -Params.MAX_DAILY_LOSS THEN FALSE
       ELSE IF spread_bps < Params.MIN_SPREAD_BPS THEN FALSE
       ELSE IF NakedShort(Params, current_position, side) THEN FALSE
       ELSE TRUE

NoCheck ==
    [called |-> FALSE, policy |-> "StrictRiskPolicy", current_position |-> 0,
     order_size |-> 0, side |-> "BUY", daily_pnl |-> 0, spread_bps |-> 0,
     ret |-> FALSE]

InitRisk == rc = NoCheck

\* one call of check_order of one instantiation of the checker
CheckOrderCall ==
    /\ ~rc.called
    /\ \E policy \in RiskPolicies, current_position \in RiskPositions,
          order_size \in RiskOrderSizes, side \in Sides,
          daily_pnl \in RiskDailyPnls, spread_bps \in RiskSpreads :
           rc' = [called |-> TRUE, policy |-> policy,
                  current_position |-> current_position,
                  order_size |-> order_size, side |-> side,
                  daily_pnl |-> daily_pnl, spread_bps |-> spread_bps,
                  ret |-> CheckOrder(policy, current_position, order_size,
                                     side, daily_pnl, spread_bps)]

NextRisk ==
    \/ CheckOrderCall /\ UNCHANGED notRisk

-----------------------------------------------------------------------------
(***************************************************************************)
(* ArrayBasedOrderBook<MaxLevels> and FastLOBReconstructor                 *)
(*                                                                         *)
(* A side of the array book is its slot array, its price -> index map and  *)
(* its level counter.  The per-price aggregation maps of the               *)
(* reconstructor are functions whose domain is the set of prices that      *)
(* operator[] has touched.  A pointer to a slot is the index of the slot,  *)
(* nullptr is NullSlot.  The uint32 counts are plain integers.             *)
(***************************************************************************)

\* bounds of the model: slots of a side (100 in the source), prices and
\* sequence numbers of the feed
MaxLevels == 2
MaxFastPrice == 3
MaxFastSeq == 3

FastPrices == 1 .. MaxFastPrice
Slots == 0 .. MaxLevels - 1
NullSlot == -1

\* get_best_bid starts from -1e10, get_best_ask from 1e10 (units of 100)
LowestPrice == -100000000
HighestPrice == 100000000

\* FastPriceLevel()
FastPriceLevel ==
    [price |-> 0, quantity |-> 0, order_count |-> 0, is_active |-> FALSE]

\* one side of ArrayBasedOrderBook(): bids_ / bid_price_to_index_ /
\* num_bid_levels_, or the same for asks
NewSide ==
    [levels |-> [i \in Slots |-> FastPriceLevel],
     price_to_index |-> EmptyMap, num_levels |-> 0]

\* allocate_bid_slot / allocate_ask_slot: the first slot not in use, slot 0
\* if every slot is in use
AllocateSlot(side) ==
    LET free == {i \in Slots : ~side.levels[i].is_active}
    IN IF free # {}
       THEN [idx |-> SetMin(free), num_levels |-> side.num_levels + 1]
       ELSE [idx |-> 0, num_levels |-> side.num_levels]

\* update_bid / update_ask
UpdateLevel(side, price, quantity, order_count) ==
    IF price \in DOMAIN side.price_to_index
    THEN LET idx == side.price_to_index[price]
         IN [side EXCEPT
               !.levels[idx].quantity = quantity,
               !.levels[idx].order_count = order_count,
               !.levels[idx].is_active = (quantity > 0),
               !.price_to_index =
                   IF quantity <= 0 THEN Erase(@, price) ELSE @]
    ELSE IF quantity > 0
    THEN LET a == AllocateSlot(side)
         IN [levels |-> [side.levels EXCEPT
                           ![a.idx] = [price |-> price, quantity |-> quantity,
                                       order_count |-> order_count,
                                       is_active |-> TRUE]],
             price_to_index |-> Put(side.price_to_index, price, a.idx),
             num_levels |-> a.num_levels]
    ELSE side

\* the test of the scan with is_active left out (mutation of BetterBid)
BetterBidAnySlot(level, best_price) == level.price > best_price

\* get_best_bid: bids_[i].is_active && bids_[i].price > best_price
BetterBid(level, best_price) == level.is_active /\ level.price > best_price

\* get_best_ask: asks_[i].is_active && asks_[i].price < best_price
BetterAsk(level, best_price) == level.is_active /\ level.price < best_price

RECURSIVE BestBidFrom(_, _, _, _)
BestBidFrom(levels, i, best_price, best) ==
    IF i = MaxLevels THEN best
    ELSE IF BetterBid(levels[i], best_price)
         THEN BestBidFrom(levels, i + 1, levels[i].price, i)
         ELSE BestBidFrom(levels, i + 1, best_price, best)

RECURSIVE BestAskFrom(_, _, _, _)
BestAskFrom(levels, i, best_price, best) ==
    IF i = MaxLevels THEN best
    ELSE IF BetterAsk(levels[i], best_price)
         THEN BestAskFrom(levels, i + 1, levels[i].price, i)
         ELSE BestAskFrom(levels, i + 1, best_price, best)

\* const FastPriceLevel* get_best_bid() const
get_best_bid(side) == BestBidFrom(side.levels, 0, LowestPrice, NullSlot)

\* const FastPriceLevel* get_best_ask() const
get_best_ask(side) == BestAskFrom(side.levels, 0, HighestPrice, NullSlot)

\* FastLOBReconstructor(symbol)
NewFastLOB ==
    [bids |-> NewSide, asks |-> NewSide, orders_ |-> EmptyMap,
     last_sequence_number_ |-> 0,
     bid_level_quantities_ |-> EmptyMap, bid_level_counts_ |-> EmptyMap,
     ask_level_quantities_ |-> EmptyMap, ask_level_counts_ |-> EmptyMap]

\* get_bbo: {book_.get_best_bid(), book_.get_best_ask()}
get_bbo(f) == [bid |-> get_best_bid(f.bids), ask |-> get_best_ask(f.asks)]

\* m[k] of an unordered_map: a missing key is inserted with value 0
At(m, k) == IF k \in DOMAIN m THEN m[k] ELSE 0

\* the aggregation of one price on one side changed by dq and dc, then
\* update_bid / update_ask with the new values
Aggregate(f, is_bid, price, dq, dc) ==
    IF is_bid
    THEN LET q == At(f.bid_level_quantities_, price) + dq
             c == At(f.bid_level_counts_, price) + dc
         IN [f EXCEPT !.bid_level_quantities_ = Put(@, price, q),
                      !.bid_level_counts_ = Put(@, price, c),
                      !.bids = UpdateLevel(@, price, q, c)]
    ELSE LET q == At(f.ask_level_quantities_, price) + dq
             c == At(f.ask_level_counts_, price) + dc
         IN [f EXCEPT !.ask_level_quantities_ = Put(@, price, q),
                      !.ask_level_counts_ = Put(@, price, c),
                      !.asks = UpdateLevel(@, price, q, c)]

\* FastLOBReconstructor::handle_add
FastHandleAdd(f, order_id, price, quantity, is_bid) ==
    LET order == [order_id |-> order_id, price |-> price,
                  quantity |-> quantity, is_bid |-> is_bid]
        f1 == [f EXCEPT !.orders_ = Put(@, order_id, order)]
    IN [ok |-> TRUE, f |-> Aggregate(f1, is_bid, price, quantity, 1)]

\* FastLOBReconstructor::handle_modify: the side is the is_bid of the call
FastHandleModify(f, order_id, new_price, new_quantity, is_bid) ==
    IF order_id \notin DOMAIN f.orders_
    THEN FastHandleAdd(f, order_id, new_price, new_quantity, is_bid)
    ELSE
      LET order == f.orders_[order_id]
          f1 == Aggregate(f, is_bid, order.price, 0 - order.quantity, -1)
          f2 == [f1 EXCEPT !.orders_[order_id].price = new_price,
                           !.orders_[order_id].quantity = new_quantity]
      IN [ok |-> TRUE, f |-> Aggregate(f2, is_bid, new_price, new_quantity, 1)]

\* FastLOBReconstructor::handle_delete
FastHandleDelete(f, order_id) ==
    IF order_id \notin DOMAIN f.orders_
    THEN [ok |-> FALSE, f |-> f]
    ELSE
      LET order == f.orders_[order_id]
          f1 == Aggregate(f, order.is_bid, order.price, 0 - order.quantity, -1)
      IN [ok |-> TRUE, f |-> [f1 EXCEPT !.orders_ = Erase(@, order_id)]]

\* FastLOBReconstructor::handle_execute: the level is updated with the
\* count it had; the count drops afterwards if the order is exhausted
FastHandleExecute(f, order_id, executed_quantity) ==
    IF order_id \notin DOMAIN f.orders_
    THEN [ok |-> TRUE, f |-> f]
    ELSE
      LET order == f.orders_[order_id]
          f1 == Aggregate(f, order.is_bid, order.price,
                          0 - executed_quantity, 0)
          left == order.quantity - executed_quantity
      IN [ok |-> TRUE,
          f |-> IF left <= 0
                THEN IF order.is_bid
                     THEN [f1 EXCEPT
                             !.bid_level_counts_[order.price] = @ - 1,
                             !.orders_ = Erase(@, order_id)]
                     ELSE [f1 EXCEPT
                             !.ask_level_counts_[order.price] = @ - 1,
                             !.orders_ = Erase(@, order_id)]
                ELSE [f1 EXCEPT !.orders_[order_id].quantity = left]]

\* FastLOBReconstructor::process_update; update_type 0 ADD, 1 MODIFY,
\* 2 DELETE, 3 EXECUTE
FastProcessUpdate(f, sequence_number, update_type, order_id, price, quantity, is_bid) ==
    IF sequence_number # f.last_sequence_number_ + 1
       /\ f.last_sequence_number_ # 0
    THEN [ok |-> FALSE, f |-> f]
    ELSE
      LET f1 == [f EXCEPT !.last_sequence_number_ = sequence_number]
      IN CASE update_type = 0 ->
                  FastHandleAdd(f1, order_id, price, quantity, is_bid)
           [] update_type = 1 ->
                  FastHandleModify(f1, order_id, price, quantity, is_bid)
           [] update_type = 2 -> FastHandleDelete(f1, order_id)
           [] update_type = 3 ->
                  FastHandleExecute(f1, order_id, quantity)
           [] OTHER -> [ok |-> FALSE, f |-> f1]

FastUpdateTypes == 0 .. 4

InitFast == fast = [lob |-> NewFastLOB, ret |-> FALSE]

\* one update of the feed given to process_update, in sequence or one
\* number late
FastProcessUpdateCall ==
    /\ fast.lob.last_sequence_number_ < MaxFastSeq
    /\ \E gap \in {1, 2}, update_type \in FastUpdateTypes,
          order_id \in OrderIds, price \in FastPrices,
          quantity \in Quantities, is_bid \in BOOLEAN :
           LET r == FastProcessUpdate(fast.lob,
                        fast.lob.last_sequence_number_ + gap, update_type,
                        order_id, price, quantity, is_bid)
           IN fast' = [lob |-> r.f, ret |-> r.ok]

NextFast ==
    \/ FastProcessUpdateCall /\ UNCHANGED notFast

\* const: std::pair<optional<PriceLevel>, optional<PriceLevel>>
\* get_top_of_book(); an empty optional is the empty sequence
get_top_of_book(b) ==
    [bid |-> IF DOMAIN b.bids_ # {}
             THEN <<b.bids_[BidOrder(b)[1]]>> ELSE <<>>,
     ask |-> IF DOMAIN b.asks_ # {}
             THEN <<b.asks_[AskOrder(b)[1]]>> ELSE <<>>]

\* update_type of FastLOBReconstructor::process_update for an UpdateType
FastTypeOf(type) ==
    CASE type = "ADD" -> 0
      [] type = "MODIFY" -> 1
      [] type = "DELETE" -> 2
      [] type = "EXECUTE" -> 3
      [] OTHER -> 4

\* One feed applied to an OrderBookReconstructor and a FastLOBReconstructor,
\* both as constructed: consecutive sequence numbers from 1; ADD, MODIFY,
\* DELETE and EXECUTE with positive quantities; an order id is ADDed at
\* most once; no side sees more distinct prices than the array book has
\* slots; a MODIFY or EXECUTE of a tracked order names the order's own side
\* and an EXECUTE takes no more than the order's remaining quantity.
\* balAdded holds the ids that have been ADDed.
LockstepUpdate ==
    /\ obCalls < MaxCalls
    /\ \E u \in Updates :
         LET r == ProcessUpdate(book, u)
             g == FastProcessUpdate(fast.lob, u.sequence_number,
                                    FastTypeOf(u.type), u.order_id, u.price,
                                    u.quantity, u.is_bid)
             adds == u.type = "ADD"
                     \/ (u.type = "MODIFY" /\ u.order_id \notin DOMAIN book.orders_)
         IN /\ u.type # "SNAPSHOT"
            /\ u.sequence_number = obCalls + 1
            /\ adds => u.order_id \notin balAdded
            /\ (u.type \in {"MODIFY", "EXECUTE"}
                  /\ u.order_id \in DOMAIN book.orders_)
                 => u.is_bid = book.orders_[u.order_id].is_bid
            /\ (u.type = "EXECUTE" /\ u.order_id \in DOMAIN book.orders_)
                 => u.quantity <= book.orders_[u.order_id].quantity
            /\ Cardinality(DOMAIN g.f.bid_level_quantities_) <= MaxLevels
            /\ Cardinality(DOMAIN g.f.ask_level_quantities_) <= MaxLevels
            /\ book' = r.b
            /\ obLast' = [kind |-> "update", ret |-> r.ret, type |-> u.type,
                          seq |-> u.sequence_number]
            /\ fast' = [lob |-> g.f, ret |-> g.ok]
            /\ balAdded' = IF adds THEN balAdded \cup {u.order_id}
                           ELSE balAdded
    /\ obCalls' = obCalls + 1
    /\ UNCHANGED balDeleted

NextLockstep ==
    \/ LockstepUpdate /\ UNCHANGED notLockstep

\* a feed replayed into one of the two reconstructors
NextTop ==
    \/ fast.lob = NewFastLOB /\ NextBook
    \/ book = NewBook /\ obCalls = 0 /\ NextFast

-----------------------------------------------------------------------------
(***************************************************************************)
(* KernelBypassNIC and MarketDataSimulator                                 *)
(*                                                                         *)
(* market_data_queue_ is the sequence of the ticks it holds; push and pop  *)
(* are taken whole (their steps are the LockFreeQueue part above).  A      *)
(* tick is the number it was generated with.  nicLast is what the last     *)
(* direct call of inject_market_data / inject_batch returned to its        *)
(* caller; the feed thread of the simulator keeps no result.               *)
(***************************************************************************)

\* bounds of the model: log2 of the ring size (16384 slots in the source),
\* ticks generated by the simulator, ticks of one batch, packets counted
NicCapacityLog2 == 2
MaxSimTicks == 3
MaxBatch == 3
MaxPackets == 4

\* LockFreeQueue::capacity(): one slot reserved
NicCapacity == Pow2(NicCapacityLog2) - 1

\* sizeof(MarketTick), in units of one tick
TickBytes == 1

\* KernelBypassNIC(queue_capacity)
NewNic ==
    [market_data_queue_ |-> <<>>, is_running_ |-> FALSE,
     total_packets_received_ |-> 0, total_bytes_received_ |-> 0]

\* MarketDataSimulator(nic); seq is the counter of the feed thread
NewSimulator == [is_running_ |-> FALSE, seq |-> 0]

\* LockFreeQueue::push on the queue of the NIC
NicPush(n, tick) ==
    IF Len(n.market_data_queue_) >= NicCapacity
    THEN [ok |-> FALSE, n |-> n]
    ELSE [ok |-> TRUE,
          n |-> [n EXCEPT !.market_data_queue_ = Append(@, tick)]]

\* bool inject_market_data(const MarketTick& tick)
InjectMarketData(n, tick) ==
    IF ~n.is_running_ THEN [ret |-> FALSE, n |-> n]
    ELSE LET r == NicPush(n, tick)
         IN IF r.ok
            THEN [ret |-> TRUE,
                  n |-> [r.n EXCEPT
                           !.total_packets_received_ = @ + 1,
                           !.total_bytes_received_ = @ + TickBytes]]
            ELSE [ret |-> FALSE, n |-> r.n]

RECURSIVE InjectLoop(_, _, _)
\* the loop of inject_batch: push until one push fails
InjectLoop(n, ticks, injected) ==
    IF ticks = <<>> THEN [injected |-> injected, n |-> n]
    ELSE LET r == NicPush(n, Head(ticks))
         IN IF r.ok THEN InjectLoop(r.n, Tail(ticks), injected + 1)
            ELSE [injected |-> injected, n |-> n]

\* size_t inject_batch(const MarketTick* ticks, size_t count)
InjectBatch(n, ticks) ==
    IF ~n.is_running_ THEN [ret |-> 0, n |-> n]
    ELSE LET r == InjectLoop(n, ticks, 0)
         IN [ret |-> r.injected,
             n |-> IF r.injected > 0
                   THEN [r.n EXCEPT
                           !.total_packets_received_ = @ + r.injected,
                           !.total_bytes_received_ =
                               @ + r.injected * TickBytes]
                   ELSE r.n]

NoInject == [op |-> "none", count |-> 0, ret |-> 0]

InitNic ==
    /\ nic = NewNic
    /\ sim = NewSimulator
    /\ nicLast = NoInject

\* void KernelBypassNIC::start()
NicStart ==
    /\ ~nic.is_running_
    /\ nic' = [nic EXCEPT !.is_running_ = TRUE]
    /\ UNCHANGED <<sim, nicLast>>

\* void KernelBypassNIC::stop()
NicStop ==
    /\ nic.is_running_
    /\ nic' = [nic EXCEPT !.is_running_ = FALSE]
    /\ UNCHANGED <<sim, nicLast>>

\* bool get_next_tick(MarketTick& tick)
GetNextTick ==
    /\ nic.market_data_queue_ # <<>>
    /\ nic' = [nic EXCEPT !.market_data_queue_ = Tail(@)]
    /\ UNCHANGED <<sim, nicLast>>

\* a caller injects one tick and receives the result
InjectMarketDataCall ==
    /\ nic.total_packets_received_ < MaxPackets
    /\ LET r == InjectMarketData(nic, 0)
       IN /\ nic' = r.n
          /\ nicLast' = [op |-> "inject_market_data", count |-> 1,
                         ret |-> IF r.ret THEN 1 ELSE 0]
    /\ UNCHANGED sim

\* a caller injects a batch and receives the number injected
InjectBatchCall ==
    /\ nic.total_packets_received_ < MaxPackets
    /\ \E count \in 1 .. MaxBatch :
         LET r == InjectBatch(nic, [i \in 1 .. count |-> 0])
         IN /\ nic' = r.n
            /\ nicLast' = [op |-> "inject_batch", count |-> count,
                           ret |-> r.ret]
    /\ UNCHANGED sim

\* void MarketDataSimulator::start(update_frequency_hz)
SimulatorStart ==
    /\ ~sim.is_running_
    /\ sim' = [is_running_ |-> TRUE, seq |-> 0]
    /\ UNCHANGED <<nic, nicLast>>

\* void MarketDataSimulator::stop()
SimulatorStop ==
    /\ sim.is_running_
    /\ sim' = [sim EXCEPT !.is_running_ = FALSE]
    /\ UNCHANGED <<nic, nicLast>>

\* one iteration of the feed thread: generate_synthetic_tick(seq++), then
\* nic_.inject_market_data(tick), whose result is not used
SimulatorIteration ==
    /\ sim.is_running_
    /\ sim.seq < MaxSimTicks
    /\ nic.total_packets_received_ < MaxPackets
    /\ sim' = [sim EXCEPT !.seq = @ + 1]
    /\ nic' = InjectMarketData(nic, sim.seq + 1).n
    /\ UNCHANGED nicLast

NextNic ==
    \/ NicStart /\ UNCHANGED notNic
    \/ NicStop /\ UNCHANGED notNic
    \/ GetNextTick /\ UNCHANGED notNic
    \/ InjectMarketDataCall /\ UNCHANGED notNic
    \/ InjectBatchCall /\ UNCHANGED notNic
    \/ SimulatorStart /\ UNCHANGED notNic
    \/ SimulatorStop /\ UNCHANGED notNic
    \/ SimulatorIteration /\ UNCHANGED notNic

-----------------------------------------------------------------------------
(***************************************************************************)
(* HawkesIntensityEngine on its own: update and the predictions            *)
(***************************************************************************)

\* bound of the model: events given to update
MaxHawkesEvents == 4

\* time from one event to the next, and forecast horizons
ArrivalGaps == {0, 1, 20}
Horizons == {0, 1, 20, 100}

\* double predict_buy_intensity(Duration forecast_horizon) const
predict_buy_intensity(h, forecast_horizon) ==
    ComputeIntensity(h, "BUY", h.current_time_ + forecast_horizon)

\* double predict_sell_intensity(Duration forecast_horizon) const
predict_sell_intensity(h, forecast_horizon) ==
    ComputeIntensity(h, "SELL", h.current_time_ + forecast_horizon)

\* double get_buy_intensity() const
get_buy_intensity(h) == h.intensity_buy_

\* double get_sell_intensity() const
get_sell_intensity(h) == h.intensity_sell_

InitHawkes == hk = NewHawkes

\* void update(const TradingEvent& event)
HawkesUpdateCall ==
    /\ Len(hk.buy_events_) + Len(hk.sell_events_) < MaxHawkesEvents
    /\ \E gap \in ArrivalGaps, event_type \in Sides :
         hk' = HawkesUpdate(hk, hk.current_time_ + gap, event_type)

NextHawkes ==
    \/ HawkesUpdateCall /\ UNCHANGED notHawkes

\* the producer, the consumer and a thread calling size()
NextQueueObserved ==
    \/ NextQueue
    \/ SizeLoadHead /\ UNCHANGED notObserved
    \/ SizeLoadTail /\ UNCHANGED notObserved

-----------------------------------------------------------------------------
(***************************************************************************)
(* ComponentTiming: nine per-stage timings and their total.  The fields    *)
(* are uint64_t; the values assigned here keep every sum far below 2^64.   *)
(***************************************************************************)

\* largest value assigned to a stage timing
MaxStageTiming == 1

StageTimings == 0 .. MaxStageTiming

\* the nine data members, in declaration order
Stages == <<"rx_dma_to_app", "parse_packet", "lob_update",
            "feature_extraction", "inference", "strategy",
            "risk_checks", "order_encode", "tx_app_to_dma">>

\* ComponentTiming(): every member initialised to 0
NewComponentTiming == [s \in {Stages[i] : i \in DOMAIN Stages} |-> 0]

\* a total that leaves out the inference stage (mutation of total)
TotalWithoutInference(t) == t.rx_dma_to_app + t.parse_packet + t.lob_update + t.feature_extraction + t.strategy + t.risk_checks + t.order_encode + t.tx_app_to_dma

\* uint64_t total() const
total(t) == t.rx_dma_to_app + t.parse_packet + t.lob_update + t.feature_extraction + t.inference + t.strategy + t.risk_checks + t.order_encode + t.tx_app_to_dma

InitTiming == ct = [timing |-> NewComponentTiming, ret |-> 0, op |-> "new"]

\* timing.<stage> = v;
AssignStage ==
    \E i \in DOMAIN Stages, v \in StageTimings :
        ct' = [ct EXCEPT !.timing[Stages[i]] = v, !.op = "assign"]

\* timing.total()
TotalCall ==
    ct' = [ct EXCEPT !.ret = total(ct.timing), !.op = "total"]

NextTiming ==
    \/ AssignStage /\ UNCHANGED notTiming
    \/ TotalCall /\ UNCHANGED notTiming

-----------------------------------------------------------------------------
(***************************************************************************)
(* BacktestingEngine: the position                                         *)
(*                                                                         *)
(* The replay loop seen through current_position_.  Whether the temporal   *)
(* filter reports a persistent signal on a tick is the input persistent;   *)
(* whether the quoted prices are valid and the checks of the risk gate     *)
(* other than the position check pass is the input quotes_ok.  The risk    *)
(* gate's position check is |current_position + signed_qty(order)| <=      *)
(* N_max.  Quantities are shares.                                          *)
(***************************************************************************)

\* bound of the model: events of one replay
MaxPositionEvents == 6

\* config_.max_position of the modelled run (BacktestConfig() has 1000)
PositionLimit == 200

\* DynamicMMStrategy: max_inventory_(1000); base_size = 100.0
MaxInventory == 1000
BaseQuoteSize == 100

\* distance in ns between two events: below and above the enforced latency
PositionGaps == {300, 600}

\* inventories below 1000 for which the double product
\* 100.0 * (1.0 + |inventory| / 1000.0) falls just below the exact product
ProductFallsShort == {130, 150, 160, 570, 820}

\* calculate_quote_size, converted to the uint64_t bid_size / ask_size of
\* TradingSignal
CalculateQuoteSize(side, inventory) ==
    IF (side = "SELL" /\ inventory > 0) \/ (side = "BUY" /\ inventory < 0)
    THEN (BaseQuoteSize * (MaxInventory + Abs(inventory))) \div MaxInventory
           - (IF Abs(inventory) \in ProductFallsShort THEN 1 ELSE 0)
    ELSE BaseQuoteSize

SignedQty(side, quantity) == IF side = "BUY" THEN quantity ELSE 0 - quantity

\* RiskControl::check_pre_trade_limits, the position check
CheckPreTradeLimits(side, quantity, current_position, max_position) == Abs(current_position + SignedQty(side, quantity)) <= max_position

NewPositionEngine ==
    [pc |-> "running", first_tick |-> TRUE, consumed |-> 0,
     simulated_latency_ns |-> DefaultLatency, max_position |-> PositionLimit,
     current_time_ns_ |-> 0, order_id_counter_ |-> 1,
     active_orders_ |-> <<>>, current_position_ |-> 0]

\* submit_order with the order's quantity
SubmitSizedOrder(e, side, quantity) ==
    [e EXCEPT !.order_id_counter_ = @ + 1,
              !.active_orders_ =
                  Append(@, [order_id |-> e.order_id_counter_, side |-> side,
                             quantity |-> quantity,
                             submit_time_ns |-> e.current_time_ns_])]

\* generate_trading_signal from the risk check on, then
\* execute_trading_decision: the test order is a BUY of 100 at the current
\* position; on pass a bid and an ask of the quoted sizes are submitted
TradeOnSignal(e, persistent, quotes_ok) ==
    IF /\ persistent /\ quotes_ok
       /\ CheckPreTradeLimits("BUY", 100, e.current_position_, e.max_position)
    THEN SubmitSizedOrder(
             SubmitSizedOrder(e, "BUY",
                 CalculateQuoteSize("BUY", e.current_position_)),
             "SELL", CalculateQuoteSize("SELL", e.current_position_))
    ELSE e

RECURSIVE FilledQty(_, _, _)
\* the signed quantity of the due orders of s whose draw wins
FilledQty(e, s, wins) ==
    IF s = <<>> THEN 0
    ELSE (IF Due(e, Head(s)) /\ Head(s).order_id \in wins
          THEN SignedQty(Head(s).side, Head(s).quantity) ELSE 0)
         + FilledQty(e, Tail(s), wins)

\* process_fill_check: every due order leaves active_orders_; a filled BUY
\* adds its quantity to current_position_, a filled SELL subtracts it
ProcessSizedFillCheck(e, wins) ==
    LET NotDue(o) == ~Due(e, o)
    IN [e EXCEPT !.active_orders_ = SelectSeq(@, NotDue),
                 !.current_position_ =
                     @ + FilledQty(e, e.active_orders_, wins)]

InitPosition == ps = NewPositionEngine

\* the iteration for the first event
PositionFirstEvent ==
    /\ ps.pc = "running" /\ ps.first_tick
    /\ \E gap \in PositionGaps :
          ps' = [ps EXCEPT !.current_time_ns_ = gap, !.first_tick = FALSE,
                           !.consumed = @ + 1]

\* one iteration of the replay loop for a later event
PositionEvent ==
    /\ ps.pc = "running" /\ ~ps.first_tick /\ ps.consumed < MaxPositionEvents
    /\ \E gap \in PositionGaps, persistent \in BOOLEAN, quotes_ok \in BOOLEAN :
          LET e1 == [ps EXCEPT !.current_time_ns_ = @ + gap,
                               !.consumed = @ + 1]
              e2 == TradeOnSignal(e1, persistent, quotes_ok)
          IN \E wins \in SUBSET OrderIdsOf(DueOrders(e2)) :
                ps' = ProcessSizedFillCheck(e2, wins)

\* the loop ends with the event list
PositionEnd ==
    /\ ps.pc = "running" /\ ps.consumed = MaxPositionEvents
    /\ ps' = [ps EXCEPT !.pc = "done"]

NextPosition ==
    \/ PositionFirstEvent /\ UNCHANGED notPosition
    \/ PositionEvent /\ UNCHANGED notPosition
    \/ PositionEnd /\ UNCHANGED notPosition

-----------------------------------------------------------------------------
(***************************************************************************)
(* ArrayBasedOrderBook<MaxLevels> on its own                               *)
(*                                                                         *)
(* The public member functions of the book called with any price,          *)
(* quantity and order count.                                               *)
(***************************************************************************)

\* bound of the model: calls made on the book
MaxArrayCalls == 4

\* ArrayBasedOrderBook()
NewArrayBook == [bids |-> NewSide, asks |-> NewSide]

InitArray == ab = [book |-> NewArrayBook, calls |-> 0]

\* update_bid(price, quantity, order_count)
UpdateBidCall ==
    \E price \in FastPrices, quantity \in 0 .. MaxQty,
       order_count \in 0 .. 1 :
        /\ ab.calls < MaxArrayCalls
        /\ ab' = [book |-> [ab.book EXCEPT
                     !.bids = UpdateLevel(@, price, quantity, order_count)],
                  calls |-> ab.calls + 1]

\* update_ask(price, quantity, order_count)
UpdateAskCall ==
    \E price \in FastPrices, quantity \in 0 .. MaxQty,
       order_count \in 0 .. 1 :
        /\ ab.calls < MaxArrayCalls
        /\ ab' = [book |-> [ab.book EXCEPT
                     !.asks = UpdateLevel(@, price, quantity, order_count)],
                  calls |-> ab.calls + 1]

\* clear()
ClearCall ==
    /\ ab.calls < MaxArrayCalls
    /\ ab' = [book |-> NewArrayBook, calls |-> ab.calls + 1]

NextArray ==
    \/ UpdateBidCall /\ UNCHANGED notArray
    \/ UpdateAskCall /\ UNCHANGED notArray
    \/ ClearCall /\ UNCHANGED notArray

-----------------------------------------------------------------------------
(***************************************************************************)
(* OrderBookReconstructor: locking                                         *)
(*                                                                         *)
(* Threads call the public member functions of one reconstructor.  A       *)
(* thread is its stack of frames, a frame the function and the place in    *)
(* it.  A std::mutex is its owner, 0 when free.  Locking a std::mutex the  *)
(* calling thread owns is undefined: the thread blocks for ever or the     *)
(* lock throws and the lock_guards of the frames unwind.  Registered       *)
(* callbacks do not call the reconstructor.                                *)
(***************************************************************************)

\* bound of the model: the threads
MaxThreads == 2

Threads == 1 .. MaxThreads
Mutexes == {"book_mutex_", "ofi_mutex_", "callback_mutex_"}
PublicFunctions ==
    {"initialize_from_snapshot", "process_update",
     "register_deep_state_callback", "get_top_of_book", "get_depth",
     "get_current_ofi", "get_statistics"}

\* the mutex of the lock_guard at the head of a public member function
FirstMutex(fn) ==
    CASE fn = "register_deep_state_callback" -> "callback_mutex_"
      [] fn = "get_current_ofi" -> "ofi_mutex_"
      [] OTHER -> "book_mutex_"

\* the mutex a frame is about to lock, "none" if it is not at a lock
Acquiring(frame) ==
    CASE frame.pc = "lock" -> FirstMutex(frame.fn)
      [] frame.pc = "ofi_lock" -> "ofi_mutex_"
      [] frame.pc = "publish_lock" -> "callback_mutex_"
      [] OTHER -> "none"

\* the place of a frame once the mutex it was about to lock is held
Locked(frame) ==
    CASE frame.pc = "lock" -> "held"
      [] frame.pc = "ofi_lock" -> "ofi_held"
      [] OTHER -> "publishing"

InitLocking ==
    lk = [owner |-> [m \in Mutexes |-> 0],
          stack |-> [t \in Threads |-> <<>>],
          result |-> [t \in Threads |-> "none"]]

Top(t) == lk.stack[t][Len(lk.stack[t])]

SetTop(t, pc) ==
    [lk.stack EXCEPT ![t][Len(lk.stack[t])].pc = pc]

\* a thread calls a public member function
CallPublic(t) ==
    /\ lk.stack[t] = <<>>
    /\ lk.result[t] # "blocked"
    /\ \E fn \in PublicFunctions :
          lk' = [lk EXCEPT !.stack[t] = <<[fn |-> fn, pc |-> "lock"]>>,
                           !.result[t] = "none"]

\* std::lock_guard<std::mutex> lock(m) with m free
LockFree(t) ==
    /\ lk.stack[t] # <<>>
    /\ Acquiring(Top(t)) # "none"
    /\ lk.owner[Acquiring(Top(t))] = 0
    /\ lk' = [lk EXCEPT !.owner[Acquiring(Top(t))] = t,
                        !.stack = SetTop(t, Locked(Top(t)))]

\* std::lock_guard<std::mutex> lock(m) with m owned by the calling thread:
\* the thread never proceeds
LockOwnedBlocks(t) ==
    /\ lk.stack[t] # <<>>
    /\ Acquiring(Top(t)) # "none"
    /\ lk.owner[Acquiring(Top(t))] = t
    /\ lk.result[t] # "blocked"
    /\ lk' = [lk EXCEPT !.result[t] = "blocked"]

\* std::lock_guard<std::mutex> lock(m) with m owned by the calling thread:
\* the lock throws, the frames unwind and release what the thread holds
LockOwnedThrows(t) ==
    /\ lk.stack[t] # <<>>
    /\ Acquiring(Top(t)) # "none"
    /\ lk.owner[Acquiring(Top(t))] = t
    /\ lk.result[t] # "blocked"
    /\ lk' = [owner |-> [m \in Mutexes |->
                            IF lk.owner[m] = t THEN 0 ELSE lk.owner[m]],
              stack |-> [lk.stack EXCEPT ![t] = <<>>],
              result |-> [lk.result EXCEPT ![t] = "threw"]]

\* process_update with book_mutex_ held: the handler fails and the function
\* returns, or it succeeds and calculate_deep_ofi is entered
ProcessUpdateBody(t) ==
    /\ lk.stack[t] # <<>>
    /\ Top(t).fn = "process_update" /\ Top(t).pc = "held"
    /\ \E success \in BOOLEAN :
          lk' = [lk EXCEPT !.stack =
                    SetTop(t, IF success THEN "ofi_lock" ELSE "return")]

\* calculate_deep_ofi: the block that stores current_ofi_ ends, then
\* publish_deep_state is entered
OfiStored(t) ==
    /\ lk.stack[t] # <<>>
    /\ Top(t).pc = "ofi_held"
    /\ lk' = [lk EXCEPT !.owner["ofi_mutex_"] = 0,
                        !.stack = SetTop(t, "publish_lock")]

\* publish_deep_state: the callbacks have run and the function returns
Published(t) ==
    /\ lk.stack[t] # <<>>
    /\ Top(t).pc = "publishing"
    /\ lk' = [lk EXCEPT !.owner["callback_mutex_"] = 0,
                        !.stack = SetTop(t, "return")]

\* get_statistics with book_mutex_ held: auto [best_bid, best_ask] =
\* get_top_of_book()
GetStatisticsCallsTop(t) ==
    /\ lk.stack[t] # <<>>
    /\ Top(t).fn = "get_statistics" /\ Top(t).pc = "held"
    /\ lk' = [lk EXCEPT !.stack[t] =
                 Append(SetTop(t, "return")[t],
                        [fn |-> "get_top_of_book", pc |-> "lock"])]

\* the body of a function that only reads or writes under its lock
PlainBody(t) ==
    /\ lk.stack[t] # <<>>
    /\ Top(t).fn \notin {"process_update", "get_statistics"}
    /\ Top(t).pc = "held"
    /\ lk' = [lk EXCEPT !.stack = SetTop(t, "return")]

\* the end of a public member function: its lock_guard releases the mutex
Return(t) ==
    /\ lk.stack[t] # <<>>
    /\ Top(t).pc = "return"
    /\ lk.owner[FirstMutex(Top(t).fn)] = t
    /\ lk' = [lk EXCEPT
                !.owner[FirstMutex(Top(t).fn)] = 0,
                !.stack[t] = SubSeq(@, 1, Len(@) - 1),
                !.result[t] = IF Len(lk.stack[t]) = 1 THEN "returned" ELSE @]

NextLocking ==
    \/ \E t \in Threads : CallPublic(t) /\ UNCHANGED notLocking
    \/ \E t \in Threads : LockFree(t) /\ UNCHANGED notLocking
    \/ \E t \in Threads : LockOwnedBlocks(t) /\ UNCHANGED notLocking
    \/ \E t \in Threads : LockOwnedThrows(t) /\ UNCHANGED notLocking
    \/ \E t \in Threads : ProcessUpdateBody(t) /\ UNCHANGED notLocking
    \/ \E t \in Threads : OfiStored(t) /\ UNCHANGED notLocking
    \/ \E t \in Threads : Published(t) /\ UNCHANGED notLocking
    \/ \E t \in Threads : GetStatisticsCallsTop(t) /\ UNCHANGED notLocking
    \/ \E t \in Threads : PlainBody(t) /\ UNCHANGED notLocking
    \/ \E t \in Threads : Return(t) /\ UNCHANGED notLocking

-----------------------------------------------------------------------------
(***************************************************************************)
(* BacktestingEngine: the latency sweep                                    *)
(*                                                                         *)
(* run_latency_sensitivity_analysis sets the latency and calls             *)
(* run_backtest on the same engine once per element of the sweep.  Beside  *)
(* the engine of the sweep runs an engine constructed for that latency     *)
(* alone; both are given the same events, the same verdicts of the         *)
(* strategy and the same draws.                                            *)
(***************************************************************************)

\* bounds of the model: the runs of the sweep and the events of the file
MaxSweepRuns == 2
MaxSweepEvents == 7

\* BacktestingEngine(config) with config.simulated_latency_ns = latency
Constructed(latency) ==
    [Unconstructed EXCEPT !.pc = "constructed",
                          !.simulated_latency_ns = latency,
                          !.order_id_counter_ = 1]

\* run_backtest up to its loop: "Reset state", first_tick and i
ResetState(e) ==
    [e EXCEPT !.pc = "running", !.first_tick = TRUE, !.consumed = 0,
              !.active_orders_ = <<>>, !.filled_orders_ = <<>>]

\* one iteration of the loop of run_backtest
SweepIteration(e, timestamp_ns, current_obi, tradable, wins) ==
    IF e.first_tick
    THEN [e EXCEPT !.current_time_ns_ = timestamp_ns,
                   !.first_tick = FALSE, !.consumed = @ + 1]
    ELSE LET e1 == [e EXCEPT !.current_time_ns_ = timestamp_ns,
                             !.consumed = @ + 1]
             s == GenerateTradingSignal(e1, current_obi, tradable)
             e2 == IF s.should_trade THEN ExecuteTradingDecision(s.engine)
                   ELSE s.engine
         IN ProcessFillCheck(e2, wins)

InitSweep ==
    sw = [engine |-> Constructed(DefaultLatency),
          fresh |-> Constructed(DefaultLatency), runs |-> 0, time |-> 0]

\* one element of latency_sweep_ns: config_.simulated_latency_ns =
\* latency_ns, then run_backtest begins; the fresh engine is constructed
\* with that latency and begins its run
SweepRunBegin ==
    /\ sw.engine.pc \in {"constructed", "done"}
    /\ sw.runs < MaxSweepRuns
    /\ \E latency_ns \in Latencies :
          sw' = [engine |-> ResetState(
                     [sw.engine EXCEPT !.simulated_latency_ns = latency_ns]),
                 fresh |-> ResetState(Constructed(latency_ns)),
                 runs |-> sw.runs + 1, time |-> 0]

\* both engines take the next event of the file
SweepEvent ==
    /\ sw.engine.pc = "running"
    /\ sw.engine.consumed < MaxSweepEvents
    /\ \E gap \in TickGaps, current_obi \in {500, 1000},
          tradable \in BOOLEAN,
          wins \in SUBSET (OrderIdsOf(sw.engine.active_orders_)
                           \cup OrderIdsOf(sw.fresh.active_orders_)) :
          sw' = [sw EXCEPT
                   !.engine = SweepIteration(@, sw.time + gap, current_obi,
                                             tradable, wins),
                   !.fresh = SweepIteration(@, sw.time + gap, current_obi,
                                            tradable, wins),
                   !.time = @ + gap]

\* the loop ends with the event list
SweepRunEnd ==
    /\ sw.engine.pc = "running"
    /\ sw.engine.consumed = MaxSweepEvents
    /\ sw' = [sw EXCEPT !.engine.pc = "done", !.fresh.pc = "done"]

NextSweep ==
    \/ SweepRunBegin /\ UNCHANGED notSweep
    \/ SweepEvent /\ UNCHANGED notSweep
    \/ SweepRunEnd /\ UNCHANGED notSweep

-----------------------------------------------------------------------------
(***************************************************************************)
(* OrderBookReconstructor: one update and its effect                       *)
(*                                                                         *)
(* A reconstructor as constructed is given updates through process_update. *)
(* The last update, the state before it and the result are kept beside     *)
(* the reconstructor, so that the effect of a handler can be stated.       *)
(***************************************************************************)

\* bound of the model: calls of process_update
MaxHandlerCalls == 4

NoUpdate == Update("none", 1, 1, 1, TRUE, 0)

InitHandlers ==
    ob = [book |-> NewBook, before |-> NewBook, u |-> NoUpdate,
          ret |-> FALSE, callbacks_ |-> <<>>, invoked |-> <<>>, calls |-> 0]

\* process_update(u) for any ADD, MODIFY, DELETE or EXECUTE that carries
\* the next sequence number
HandlerCall ==
    /\ ob.calls < MaxHandlerCalls
    /\ \E v \in Updates :
          /\ v.type \in {"ADD", "MODIFY", "DELETE", "EXECUTE"}
          /\ v.sequence_number = 0
          /\ LET u == [v EXCEPT !.sequence_number = ob.calls + 1]
                 r == ProcessUpdate(ob.book, u)
             IN ob' = [ob EXCEPT !.book = r.b, !.before = ob.book, !.u = u,
                                 !.ret = r.ret, !.calls = @ + 1]

NextHandlers ==
    \/ HandlerCall /\ UNCHANGED notHandlers

\* bounds of the model: registered callbacks, and calls that feed the book
MaxCallbacks == 2
MaxPublishCalls == 2

Callbacks == 1 .. MaxCallbacks

\* the callback that takes only the first registered observer (mutation of
\* PublishDeepState)
PublishDeepStateFirstOnly(callbacks, features) ==
    [i \in 1 .. Min2(Len(callbacks), 1) |->
        [callback |-> callbacks[i], features |-> features]]

\* publish_deep_state: the invocations it makes, in the order it makes them
PublishDeepState(callbacks, features) ==
    [i \in 1 .. Len(callbacks) |->
        [callback |-> callbacks[i], features |-> features]]

\* DeepOFIFeatures get_current_ofi() const
get_current_ofi(b) == b.current_ofi_

\* register_deep_state_callback(callback)
RegisterCallback ==
    /\ Len(ob.callbacks_) < MaxCallbacks
    /\ \E callback \in Callbacks :
          ob' = [ob EXCEPT !.callbacks_ = Append(@, callback),
                           !.before = ob.book, !.u = NoUpdate,
                           !.ret = TRUE, !.invoked = <<>>]

\* initialize_from_snapshot(snapshot)
PublishSnapshot ==
    /\ ob.calls < MaxPublishCalls
    /\ \E snapshot \in Snapshots :
          ob' = [ob EXCEPT !.book = InitializeFromSnapshot(@, snapshot),
                           !.before = ob.book, !.u = NoUpdate,
                           !.ret = TRUE, !.invoked = <<>>,
                           !.calls = @ + 1]

\* process_update(u) for an update of any type, in sequence or one number
\* late; publish_deep_state has run when published_ has moved
PublishUpdate ==
    /\ ob.calls < MaxPublishCalls
    /\ \E v \in Updates, gap \in {1, 2} :
          /\ v.sequence_number = 0
          /\ LET u == [v EXCEPT !.sequence_number =
                                   ob.book.last_sequence_number_ + gap]
                 r == ProcessUpdate(ob.book, u)
             IN ob' = [ob EXCEPT
                         !.book = r.b, !.before = ob.book, !.u = u,
                         !.ret = r.ret,
                         !.invoked =
                             IF r.b.published_ # ob.book.published_
                             THEN PublishDeepState(ob.callbacks_,
                                                   r.b.current_ofi_)
                             ELSE <<>>,
                         !.calls = @ + 1]

NextPublish ==
    \/ RegisterCallback /\ UNCHANGED notHandlers
    \/ PublishSnapshot /\ UNCHANGED notHandlers
    \/ PublishUpdate /\ UNCHANGED notHandlers

-----------------------------------------------------------------------------
(***************************************************************************)
(* BacktestingEngine: the latency-cost gate                                *)
(*                                                                         *)
(* generate_trading_signal once the temporal filter has confirmed the      *)
(* signal: the quotes, the validity and risk checks, the gate, then        *)
(* execute_trading_decision.  Prices, spreads and the latency cost are in  *)
(* quarter ticks (0.0025), as in calculate_quotes.  The verdict of         *)
(* check_pre_trade_limits is an input.                                     *)
(***************************************************************************)

\* should_quote: expected_spread / 2.0 > latency_cost * 1.1
ShouldQuote(expected_spread, latency_cost) ==
    10 * expected_spread > 22 * latency_cost

\* the condition of "if (mm_strategy_->should_quote(quotes.spread,
\* latency_cost) || quotes.spread > 0.0001)"; 0.0001 is 1/25 quarter tick
SignalGate(spread, latency_cost) ==
    ShouldQuote(spread, latency_cost) \/ 25 * spread > 1

\* execute_trading_decision: the sides for which an order is submitted
SubmittedSides(bid_price, ask_price, inventory) ==
    {side \in Sides :
        /\ (IF side = "BUY" THEN bid_price ELSE ask_price) > 0
        /\ CalculateQuoteSize(side, inventory) > 0}

NoSignal ==
    [called |-> FALSE, latency_cost |-> 0, quotes |-> NoQuotes,
     risk_ok |-> FALSE, should_trade |-> FALSE, submitted |-> {}]

\* generate_trading_signal from "PERSISTENT SIGNAL CONFIRMED" on, and the
\* orders execute_trading_decision submits when should_trade is set
SignalOnPersistent(quotes, latency_cost, risk_ok) ==
    LET price_valid == /\ quotes.bid_price > 0 /\ quotes.ask_price > 0
                       /\ quotes.bid_price < quotes.ask_price
        should_trade == /\ price_valid /\ risk_ok
                        /\ SignalGate(quotes.spread, latency_cost)
    IN [called |-> TRUE, latency_cost |-> latency_cost, quotes |-> quotes,
        risk_ok |-> risk_ok, should_trade |-> should_trade,
        submitted |-> IF should_trade
                      THEN SubmittedSides(quotes.bid_price, quotes.ask_price,
                                          quotes.inventory)
                      ELSE {}]

InitGate == gt = NoSignal

\* one tick with a persistent signal
SignalCall ==
    /\ ~gt.called
    /\ \E mid \in MidPrices, inventory \in Inventories,
          latency_cost \in LatencyCosts, risk \in RiskTerms,
          arrival \in ArrivalTerms, low_bid \in BOOLEAN, low_ask \in BOOLEAN,
          risk_ok \in BOOLEAN :
           gt' = SignalOnPersistent(
                     CalculateQuotes(mid, inventory, 600, latency_cost,
                                     risk, arrival, low_bid, low_ask),
                     latency_cost, risk_ok)

NextGate ==
    \/ SignalCall /\ UNCHANGED notGate

-----------------------------------------------------------------------------
(***************************************************************************)
(* BacktestingEngine: enable_adverse_selection                             *)
(*                                                                         *)
(* The fill decision of process_fill_check for one due order, with the     *)
(* configuration of the engine beside it.  config_ is not passed to        *)
(* calculate_fill_probability and process_fill_check reads only            *)
(* config_.enable_slippage, after the decision.                            *)
(***************************************************************************)

NoDecision ==
    [called |-> FALSE, enable_adverse_selection |-> TRUE, side |-> "BUY",
     price |-> 0, tick |-> [bid_price |-> 0, ask_price |-> 0, mid_price |-> 0],
     queue_position |-> 0, volatility |-> 0, latency_us |-> 0,
     random_draw |-> 0, fill_prob |-> 0, filled |-> FALSE]

\* process_fill_check for one due order of an engine with the given
\* config_: fill_model_.calculate_fill_probability(...), one draw, filled
\* if random_draw < fill_prob
ConfiguredFillDecision(config, side, price, tick, queue_position, volatility, latency_us, random_draw) ==
    LET fill_prob == CalculateFillProbability(side, price, tick,
                         queue_position, volatility, latency_us)
    IN [called |-> TRUE,
        enable_adverse_selection |-> config.enable_adverse_selection,
        side |-> side, price |-> price, tick |-> tick,
        queue_position |-> queue_position, volatility |-> volatility,
        latency_us |-> latency_us, random_draw |-> random_draw,
        fill_prob |-> fill_prob, filled |-> random_draw < fill_prob]

InitAdverse == av = NoDecision

\* an engine configured with either value of the flag decides on one order
AdverseFillDecision ==
    /\ ~av.called
    /\ \E enable_adverse_selection \in BOOLEAN, side \in Sides,
          price \in FillPrices, tick \in FillTicks,
          queue_position \in QueuePositions, volatility \in Volatilities,
          latency_us \in LatenciesUs, random_draw \in RandomDraws :
           av' = ConfiguredFillDecision(
                     [enable_adverse_selection |-> enable_adverse_selection],
                     side, price, tick, queue_position, volatility,
                     latency_us, random_draw)

NextAdverse ==
    \/ AdverseFillDecision /\ UNCHANGED notAdverse

-----------------------------------------------------------------------------
(***************************************************************************)
(* The sequence check of both reconstructors                               *)
(*                                                                         *)
(* An OrderBookReconstructor and a FastLOBReconstructor as constructed,    *)
(* fed updates that carry any sequence number; the last call is kept with  *)
(* the state it found.                                                     *)
(***************************************************************************)

MaxSequenceCalls == 3

\* the updates offered: every type, every order id, every sequence number
SequenceUpdates ==
    {u \in Updates : u.price = 1 /\ u.quantity = 1 /\ u.is_bid}

InitSequence ==
    sq = [book |-> NewBook, fast |-> NewFastLOB, before |-> NewBook,
          fastBefore |-> NewFastLOB, kind |-> "none", u |-> NoUpdate,
          update_type |-> 0, ret |-> FALSE, calls |-> 0]

\* initialize_from_snapshot(snapshot)
SequenceSnapshot ==
    /\ sq.calls < MaxSequenceCalls
    /\ \E s \in Snapshots :
         sq' = [sq EXCEPT !.book = InitializeFromSnapshot(sq.book, s),
                          !.before = sq.book, !.kind = "snapshot",
                          !.u = NoUpdate, !.ret = TRUE,
                          !.calls = @ + 1]

\* OrderBookReconstructor::process_update(update)
SequenceUpdate ==
    /\ sq.calls < MaxSequenceCalls
    /\ \E u \in SequenceUpdates :
         LET r == ProcessUpdate(sq.book, u)
         IN sq' = [sq EXCEPT !.book = r.b, !.before = sq.book,
                             !.kind = "update", !.u = u, !.ret = r.ret,
                             !.calls = @ + 1]

\* FastLOBReconstructor::process_update(sequence_number, update_type,
\* order_id, price, quantity, is_bid)
SequenceFastUpdate ==
    /\ sq.calls < MaxSequenceCalls
    /\ \E sequence_number \in SeqNums, update_type \in FastUpdateTypes,
          order_id \in OrderIds :
         LET r == FastProcessUpdate(sq.fast, sequence_number, update_type,
                                    order_id, 1, 1, TRUE)
         IN sq' = [sq EXCEPT !.fast = r.f, !.fastBefore = sq.fast,
                             !.kind = "fast",
                             !.u = Update("none", order_id, 1, 1, TRUE,
                                          sequence_number),
                             !.update_type = update_type, !.ret = r.ok,
                             !.calls = @ + 1]

NextSequence ==
    \/ SequenceSnapshot /\ UNCHANGED notSequence
    \/ SequenceUpdate /\ UNCHANGED notSequence
    \/ SequenceFastUpdate /\ UNCHANGED notSequence

-----------------------------------------------------------------------------
(***************************************************************************)
(* OrderBookReconstructor: the pressure windows                            *)
(*                                                                         *)
(* A reconstructor as constructed is fed a first update, then a run of     *)
(* EXECUTEs of an untracked order on the side of that update, then a few   *)
(* more updates of any kind: long enough for a window to fill and          *)
(* overflow.  buy_history and sell_history keep every quantity that an     *)
(* EXECUTE of an untracked order carried, per side, in arrival order.      *)
(***************************************************************************)

\* length of the run, and number of free updates after it
BurstLength == 999
MaxTailCalls == 3
MaxPressureCalls == 1 + BurstLength + MaxTailCalls

\* the updates offered outside the run
PressureUpdates ==
    {Update("ADD", 1, 1, 2, TRUE, 0)}
    \cup {Update("EXECUTE", id, 1, q, bid, 0) :
             id \in OrderIds, q \in Quantities, bid \in BOOLEAN}

\* the k-th update of the run
BurstUpdate(k, is_bid) == 
    Update("EXECUTE", MaxOrderId, 1, 1 + (k % 2), is_bid, 0)

InitPressure ==
    pw = [book |-> NewBook, u |-> NoUpdate, ret |-> FALSE,
          buy_history |-> <<>>, sell_history |-> <<>>, calls |-> 0]

\* process_update(update), the update carrying the next sequence number
PressureCall(v) ==
    LET u == [v EXCEPT !.sequence_number = pw.calls + 1]
        r == ProcessUpdate(pw.book, u)
        aggressive == u.type = "EXECUTE"
                        /\ u.order_id \notin DOMAIN pw.book.orders_
    IN pw' = [book |-> r.b, u |-> u, ret |-> r.ret,
              buy_history |-> IF aggressive /\ u.is_bid
                              THEN Append(pw.buy_history, u.quantity)
                              ELSE pw.buy_history,
              sell_history |-> IF aggressive /\ ~u.is_bid
                               THEN Append(pw.sell_history, u.quantity)
                               ELSE pw.sell_history,
              calls |-> pw.calls + 1]

PressureFreeUpdate ==
    /\ pw.calls = 0 \/ pw.calls > BurstLength
    /\ pw.calls < MaxPressureCalls
    /\ \E v \in PressureUpdates : PressureCall(v)

PressureBurstUpdate ==
    /\ pw.calls \in 1 .. BurstLength
    /\ PressureCall(BurstUpdate(pw.calls, pw.u.is_bid))

NextPressure ==
    \/ PressureFreeUpdate /\ UNCHANGED notPressure
    \/ PressureBurstUpdate /\ UNCHANGED notPressure

-----------------------------------------------------------------------------
(***************************************************************************)
(* Specifications                                                          *)
(***************************************************************************)

Init == InitQueue /\ InitBook /\ InitBacktest /\ InitDeterminism
        /\ InitQuotes
        /\ InitFill
        /\ InitRisk
        /\ InitFast
        /\ InitNic
        /\ InitHawkes
        /\ obs = ObsIdle
        /\ InitTiming
        /\ InitPosition
        /\ InitArray
        /\ InitLocking
        /\ InitSweep
        /\ InitHandlers
        /\ InitGate
        /\ InitAdverse
        /\ InitSequence
        /\ InitPressure

\* the SPSC queue with its producer and its consumer thread
SpecQueue == Init /\ [][NextQueue]_vars

\* the order book under arbitrary calls
SpecBook == Init /\ [][NextBook]_vars

\* the order book, empty at first, under balanced ADD / DELETE updates
SpecBalanced == Init /\ [][NextBalanced]_vars

\* OrderBookReconstructor fed well-formed updates from construction
SpecWellFormed == Init /\ [][NextWellFormed]_vars

\* OrderBookReconstructor fed a snapshot and then consecutive sequence numbers
SpecConsecutive == Init /\ [][NextConsecutive]_vars

\* the backtesting engine: construction and one replay
SpecBacktest == Init /\ [][NextBacktest]_vars

\* two executions of the same backtest, side by side
SpecDeterminism == Init /\ [][NextDeterminism]_vars

\* the quoting strategy under arbitrary calls
SpecQuotes == Init /\ [][NextQuotes]_vars

\* the fill model and the fill decision, on arbitrary orders and markets
SpecFill == Init /\ [][NextFill]_vars

\* the pre-trade risk check, on arbitrary orders under each policy
SpecRisk == Init /\ [][NextRisk]_vars

\* the array-based reconstructor, on arbitrary feeds
SpecFast == Init /\ [][NextFast]_vars

\* either reconstructor, on arbitrary feeds
SpecTop == Init /\ [][NextTop]_vars

\* one feed applied to both reconstructors
SpecLockstep == Init /\ [][NextLockstep]_vars

\* the NIC with its direct producers, its consumer and the simulator feed thread
SpecNic == Init /\ [][NextNic]_vars

\* the intensity engine, on arbitrary event sequences
SpecHawkes == Init /\ [][NextHawkes]_vars

\* the queue with a thread that calls size() at any time
SpecQueueObserved == Init /\ [][NextQueueObserved]_vars

\* ComponentTiming: fields assigned and total() called in any order
SpecTiming == Init /\ [][NextTiming]_vars

\* BacktestingEngine: the position over the replay loop
SpecPosition == Init /\ [][NextPosition]_vars

\* ArrayBasedOrderBook<MaxLevels> driven through its public member functions
SpecArray == Init /\ [][NextArray]_vars

\* threads calling the public member functions of one OrderBookReconstructor
SpecLocking == Init /\ [][NextLocking]_vars

\* run_latency_sensitivity_analysis: run_backtest called again on one engine
SpecSweep == Init /\ [][NextSweep]_vars

\* any feed of ADD / MODIFY / DELETE / EXECUTE updates, each kept beside its effect
SpecHandlers == Init /\ [][NextHandlers]_vars

\* observers registered with a reconstructor that is fed snapshots and updates
SpecPublish == Init /\ [][NextPublish]_vars

\* generate_trading_signal on a persistent signal, then execute_trading_decision
SpecGate == Init /\ [][NextGate]_vars

\* the fill decision of process_fill_check under either value of enable_adverse_selection
SpecAdverse == Init /\ [][NextAdverse]_vars

\* feeds with arbitrary sequence numbers into both reconstructors
SpecSequence == Init /\ [][NextSequence]_vars

\* a feed long enough to fill a pressure window and overflow it
SpecPressure == Init /\ [][NextPressure]_vars

-----------------------------------------------------------------------------
(***************************************************************************)
(* Claims                                                                  *)
(***************************************************************************)

IsPrefix(s, t) ==
    /\ Len(s) <= Len(t)
    /\ \A i \in 1 .. Len(s) : s[i] = t[i]

\* C1: with one producer and one consumer interleaved at the level of the
\* index loads/stores and the word copies of a slot, the items returned by
\* successful pops are, in order, a prefix of the items accepted by
\* successful pushes: nothing is lost, duplicated, reordered or torn.
C1_PopsArePrefixOfPushes == IsPrefix(popped, pushed)

\* C1 witness: the ring has wrapped (more items popped than it has slots)
\* while a push is between its two word writes and a pop is reading.
C1_Witness ==
    /\ Len(popped) > Capacity
    /\ prod.pc = "write_hi"
    /\ cons.pc \in {"read_lo", "read_hi"}

\* the levels and the tracked orders of a book
Levels(b) == <<b.bids_, b.asks_>>

\* C2: once an update with sequence number n has been accepted, the next
\* update whose sequence number is not n + 1 is rejected, raises the gap
\* flag, counts a snapshot request and leaves levels, order index and last
\* accepted sequence number as they were -- whether or not the book was
\* ever initialised from a snapshot.  (Stated for n >= 1, which keeps the
\* sentinel last_sequence_number_ == 0 out of it.)
C2_GapAfterAcceptedUpdateRejected ==
    [][(/\ obLast.kind = "update" /\ obLast.ret /\ obLast.seq >= 1
        /\ obLast'.kind = "update" /\ obCalls' = obCalls + 1
        /\ obLast'.seq # obLast.seq + 1)
       => (/\ ~obLast'.ret
           /\ needs_snapshot_recovery(book')
           /\ book'.snapshot_requests_ = book.snapshot_requests_ + 1
           /\ Levels(book') = Levels(book)
           /\ book'.orders_ = book.orders_
           /\ book'.last_sequence_number_ = book.last_sequence_number_)]_vars

\* C3: while the gap flag is set every process_update is rejected;
\* initialize_from_snapshot clears the flag; the ADD carrying the
\* snapshot's sequence number + 1 is then accepted.
C3_GapBlocksUntilSnapshot ==
    [][/\ (book.gap_detected_ /\ obLast'.kind = "update"
           /\ obCalls' = obCalls + 1) => ~obLast'.ret
       /\ (obLast'.kind = "snapshot" /\ obCalls' = obCalls + 1)
            => ~needs_snapshot_recovery(book')
       /\ (obLast.kind = "snapshot" /\ obLast'.kind = "update"
           /\ obCalls' = obCalls + 1 /\ obLast'.type = "ADD"
           /\ obLast'.seq = obLast.seq + 1) => obLast'.ret]_vars

BookIsEmpty(b) ==
    /\ b.bids_ = EmptyMap
    /\ b.asks_ = EmptyMap
    /\ b.orders_ = EmptyMap

\* C4: on a book that started empty, after consecutive updates in which
\* every order id was ADDed once and later DELETEd once (in any
\* interleaving), there is no bid level, no ask level and no tracked order.
C4_BalancedReplayEndsEmpty ==
    balAdded = balDeleted => BookIsEmpty(book)

\* C4 witness: three orders were added and all of them deleted again.
C4_Witness ==
    /\ balAdded = BalancedIds
    /\ balDeleted = BalancedIds
    /\ obLast.type = "DELETE" /\ obLast.ret
    /\ BookIsEmpty(book)

LevelsPositive(m) ==
    \A p \in DOMAIN m : m[p].quantity > 0 /\ m[p].order_count > 0

\* C5: after every call (accepted or not) every level present in the bid
\* or the ask map has quantity > 0 and order_count > 0: a level that an
\* update reduced to quantity <= 0 or order_count 0 is gone with that update.
C5_PresentLevelsPositive ==
    LevelsPositive(book.bids_) /\ LevelsPositive(book.asks_)

\* C5 witness: on a book never loaded from a snapshot, an accepted EXECUTE
\* of a tracked order (no aggressive trade was ever recorded) took the last
\* tracked order and the last level away.
C5_Witness ==
    /\ obLast.kind = "update" /\ obLast.type = "EXECUTE" /\ obLast.ret
    /\ ~book.is_initialized_
    /\ book.recent_buy_volume_ = <<>> /\ book.recent_sell_volume_ = <<>>
    /\ BookIsEmpty(book)

\* C6: after every accepted update and every level index i, bid_ofi[i] is
\* the quantity of the i-th best bid after the update minus the quantity of
\* the i-th best bid right before it (0 where there is no such level),
\* ask_ofi[i] likewise, and total_ofi is the sum of bid_ofi[i] - ask_ofi[i].
C6_OfiIsLevelDelta ==
    [][(obLast'.kind = "update" /\ obLast'.ret /\ obCalls' = obCalls + 1)
       => LET f == book'.current_ofi_
          IN /\ \A i \in 0 .. OfiLevels - 1 :
                  /\ f.bid_ofi[i] = QtyAt(book'.bids_, BidOrder(book'), i)
                                      - QtyAt(book.bids_, BidOrder(book), i)
                  /\ f.ask_ofi[i] = QtyAt(book'.asks_, AskOrder(book'), i)
                                      - QtyAt(book.asks_, AskOrder(book), i)
             /\ f.total_ofi =
                  SumTo([i \in 0 .. OfiLevels - 1 |->
                           f.bid_ofi[i] - f.ask_ofi[i]], OfiLevels)]_vars

\* C7: every filled order has fill_time_ns - submit_time_ns >= 550 and
\* >= simulated_latency_ns, whatever latency is configured, and an order is
\* handed to the fill model only after it has waited that long
C7_LatencyFloor ==
    /\ \A i \in 1 .. Len(bt.filled_orders_) :
          LET o == bt.filled_orders_[i] IN
          /\ o.fill_time_ns - o.submit_time_ns >= MINIMUM_LATENCY_FLOOR_NS
          /\ o.fill_time_ns - o.submit_time_ns >= bt.simulated_latency_ns
    /\ \A x \in btObs.offered :
          /\ x.waited >= MINIMUM_LATENCY_FLOOR_NS
          /\ x.waited >= bt.simulated_latency_ns

\* an order was filled under a configured latency below the floor, at a fill
\* check that left a younger order waiting
C7_Witness ==
    /\ bt.simulated_latency_ns < MINIMUM_LATENCY_FLOOR_NS
    /\ bt.filled_orders_ # <<>>
    /\ bt.active_orders_ # <<>>

\* an order was filled under a configured latency above the floor
C7_WitnessAboveFloor ==
    /\ bt.simulated_latency_ns > MINIMUM_LATENCY_FLOOR_NS
    /\ bt.filled_orders_ # <<>>

\* C8: two executions with the same event file, configuration and seed log
\* the same signals, submitted orders, fills and cancellations
C8_ExecutionsAgree ==
    det.pc # "idle" => det.run[1].log = det.run[2].log

C9_WitnessFaded ==
    /\ ~btObs.persistent
    /\ btRun.len >= MINIMUM_PERSISTENCE_TICKS

C10_WitnessWeak ==
    /\ btObs.branch = "weak"
    /\ btObs.before = 11

\* the 12th of 12 ticks of +0.10
C10_WitnessTwelve ==
    /\ btObs.persistent
    /\ btObs.before = 11
    /\ bt.temporal_filter_.accumulated_obi = 12 * 1000

\* slot of the k-th accepted item: tail_ starts at 0 and advances by one
SlotOf(k) == (k - 1) % Capacity

C12_WitnessEmpty ==
    /\ cons.pc = "idle" /\ cons.ret = "false"
    /\ Len(pushed) = Len(popped) /\ Len(popped) > 0

\* C11: with mid price > 0 and time remaining > 0, the quotes returned by
\* calculate_quotes have bid_price < ask_price, spread = ask_price -
\* bid_price >= the minimum spread (two ticks), and both prices are whole
\* multiples of the tick size
C11_QuotesWellFormed ==
    (mm.called /\ mm.mid > 0 /\ mm.time_remaining > 0) =>
        /\ mm.bid_price < mm.ask_price
        /\ mm.spread = mm.ask_price - mm.bid_price
        /\ mm.spread >= MinSpread
        /\ mm.bid_price % TickSize = 0
        /\ mm.ask_price % TickSize = 0

\* a BUY at or above the best ask, a SELL at or below the best bid
Marketable(f) ==
    \/ f.side = "BUY" /\ f.price >= f.tick.ask_price
    \/ f.side = "SELL" /\ f.price <= f.tick.bid_price

\* C13: an order that is marketable at its fill check has fill probability
\* exactly 1.0, whatever its queue position, the spread, the volatility and
\* the elapsed latency, and is filled at that check
C13_MarketableAlwaysFills ==
    (fm.called /\ Marketable(fm)) =>
        /\ fm.fill_prob = ProbOne
        /\ fm.filled

\* the position the order would lead to, from the recorded call
C14_SignedSize == IF rc.side = "BUY" THEN rc.order_size ELSE 0 - rc.order_size

C14_OverPosition ==
    LET p == rc.current_position + C14_SignedSize
    IN (IF p < 0 THEN 0 - p ELSE p) > RiskParameters(rc.policy).MAX_POSITION_SIZE

C14_OverLoss == rc.daily_pnl < 0 - RiskParameters(rc.policy).MAX_DAILY_LOSS

C14_Short ==
    /\ ~RiskParameters(rc.policy).ALLOW_NAKED_SHORTS
    /\ rc.side = "SELL" /\ rc.current_position <= 0

C14_OtherChecksFail ==
    \/ rc.order_size > RiskParameters(rc.policy).MAX_ORDER_SIZE
    \/ rc.spread_bps < RiskParameters(rc.policy).MIN_SPREAD_BPS

\* C14: check_order returns false for every order that would take the
\* absolute position over the policy's limit, for every order when the
\* daily P&L is below minus the loss cap, and, under a policy that forbids
\* naked shorts, for every SELL from a position <= 0; it returns true only
\* when no check (these, the order size and the spread) fails
C14_RiskCheckRejects ==
    rc.called =>
        /\ C14_OverPosition => ~rc.ret
        /\ C14_OverLoss => ~rc.ret
        /\ C14_Short => ~rc.ret
        /\ rc.ret => ~(C14_OverPosition \/ C14_OverLoss \/ C14_Short
                         \/ C14_OtherChecksFail)

\* a SELL rejected for the position limit alone
C14_Witness ==
    /\ rc.called /\ ~rc.ret /\ rc.side = "SELL"
    /\ C14_OverPosition /\ ~C14_OverLoss /\ ~C14_Short /\ ~C14_OtherChecksFail

\* a SELL from a flat position rejected for the naked short alone
C14_WitnessShort ==
    /\ rc.called /\ ~rc.ret
    /\ C14_Short /\ ~C14_OverPosition /\ ~C14_OverLoss /\ ~C14_OtherChecksFail

\* an order rejected for the daily loss alone, and an accepted order
C14_WitnessLoss ==
    /\ rc.called /\ ~rc.ret
    /\ C14_OverLoss /\ ~C14_OverPosition /\ ~C14_Short /\ ~C14_OtherChecksFail

C14_WitnessAccepted == rc.called /\ rc.ret /\ rc.side = "SELL"

\* prices whose aggregated quantity is positive: the levels a side holds
PresentPrices(q) == {p \in DOMAIN q : q[p] > 0}

\* the slot returned for a side of the array book is the level the claim
\* names: none for an empty side, else the extreme present price with the
\* quantity aggregated at that price
C15_FastTop(idx, side, q, extreme) ==
    IF PresentPrices(q) = {} THEN idx = NullSlot
    ELSE /\ idx \in Slots
         /\ side.levels[idx].is_active
         /\ side.levels[idx].price = extreme
         /\ side.levels[idx].quantity = q[extreme]

\* the optional returned for a side of the map book is the level the claim
\* names
C15_MapTop(top, m, extreme) ==
    IF DOMAIN m = {} THEN top = <<>>
    ELSE /\ Len(top) = 1
         /\ top[1].price = extreme
         /\ top[1] = m[extreme]

\* C15: top of book returns, for bids, the present level with the strictly
\* greatest price and, for asks, the present level with the strictly least
\* price, with that level's aggregated quantity, and no level for an empty
\* side; for the array book, as long as the side has seen no more distinct
\* prices than it has slots
C15_TopOfBook ==
    /\ Cardinality(DOMAIN fast.lob.bid_level_quantities_) <= MaxLevels
         => C15_FastTop(get_bbo(fast.lob).bid, fast.lob.bids,
                        fast.lob.bid_level_quantities_,
                        SetMax(PresentPrices(fast.lob.bid_level_quantities_)))
    /\ Cardinality(DOMAIN fast.lob.ask_level_quantities_) <= MaxLevels
         => C15_FastTop(get_bbo(fast.lob).ask, fast.lob.asks,
                        fast.lob.ask_level_quantities_,
                        SetMin(PresentPrices(fast.lob.ask_level_quantities_)))
    /\ C15_MapTop(get_top_of_book(book).bid, book.bids_,
                  SetMax({book.bids_[p].price : p \in DOMAIN book.bids_}))
    /\ C15_MapTop(get_top_of_book(book).ask, book.asks_,
                  SetMin({book.asks_[p].price : p \in DOMAIN book.asks_}))

\* the array book holds a bid level while a slot no longer in use still
\* carries a higher price
C15_Witness ==
    /\ get_bbo(fast.lob).bid # NullSlot
    /\ \E i \in Slots :
         /\ ~fast.lob.bids.levels[i].is_active
         /\ fast.lob.bids.levels[i].price >
                fast.lob.bids.levels[get_bbo(fast.lob).bid].price

\* the map book holds two bid levels and two ask levels after an update
C15_WitnessMap ==
    /\ Cardinality(DOMAIN book.bids_) = 2
    /\ Cardinality(DOMAIN book.asks_) = 2
    /\ obLast.kind = "update" /\ obLast.ret

\* the EXECUTE updates that arrive in sequence for an order id the book
\* does not track
UntrackedExecutes ==
    {u \in Updates : /\ u.type = "EXECUTE"
                     /\ u.order_id \notin DOMAIN book.orders_
                     /\ ~GapDetected(book, u)}

\* C16: on a book with a best bid and a best ask, an EXECUTE with an
\* unknown order id for the whole quantity of the best ask removes the
\* best-ask level, increases buy pressure by that quantity and leaves
\* every other level unchanged
C16_AggressiveTradeRemovesBestAsk ==
    \A u \in UntrackedExecutes :
        (/\ u.is_bid
         /\ DOMAIN book.bids_ # {} /\ DOMAIN book.asks_ # {}
         /\ u.quantity = book.asks_[SetMin(DOMAIN book.asks_)].quantity)
        => LET r == ProcessUpdate(book, u)
               best == SetMin(DOMAIN book.asks_)
           IN /\ r.ret
              /\ best \notin DOMAIN r.b.asks_
              /\ SumSeq(r.b.recent_buy_volume_)
                     = SumSeq(book.recent_buy_volume_) + u.quantity
              /\ r.b.bids_ = book.bids_
              /\ \A p \in DOMAIN book.asks_ \ {best} :
                     p \in DOMAIN r.b.asks_ /\ r.b.asks_[p] = book.asks_[p]

\* C17: an EXECUTE for an order id that is not tracked is accepted and
\* appends one entry with the executed quantity to the buy window if
\* is_bid, else to the sell window; every bid level, every ask level and
\* the tracked-order index are left exactly as they were
C17_UntrackedExecuteOnlyPressure ==
    \A u \in UntrackedExecutes :
        LET r == ProcessUpdate(book, u)
        IN /\ r.ret
           /\ r.b.bids_ = book.bids_
           /\ r.b.asks_ = book.asks_
           /\ r.b.orders_ = book.orders_
           /\ r.b.recent_buy_volume_ =
                  IF u.is_bid THEN Append(book.recent_buy_volume_, u.quantity)
                  ELSE book.recent_buy_volume_
           /\ r.b.recent_sell_volume_ =
                  IF u.is_bid THEN book.recent_sell_volume_
                  ELSE Append(book.recent_sell_volume_, u.quantity)

\* an execution without tracked order has been accepted on a book that
\* holds levels on both sides and tracks an order
C17_Witness ==
    /\ obLast.kind = "update" /\ obLast.type = "EXECUTE" /\ obLast.ret
    /\ book.recent_buy_volume_ # <<>>
    /\ DOMAIN book.bids_ # {} /\ DOMAIN book.asks_ # {}
    /\ DOMAIN book.orders_ # {}

\* the DELETE updates for an order id the book does not track
UntrackedDeletes ==
    {u \in Updates : u.type = "DELETE" /\ u.order_id \notin DOMAIN book.orders_}

\* a book without the quantities kept for the next OFI computation, which
\* no accessor returns
WithoutPrevious(b) ==
    [b EXCEPT !.previous_bid_quantities_ = ZeroArray,
              !.previous_ask_quantities_ = ZeroArray]

\* C18: a DELETE for an order id that is not tracked returns false; price
\* levels, tracked orders, pressure windows, last sequence number, update
\* counter and the retained features are unchanged and no callback is
\* invoked; if it arrives in sequence nothing that can be read changes
C18_UntrackedDeleteNoMutation ==
    \A u \in UntrackedDeletes :
        LET r == ProcessUpdate(book, u)
        IN /\ ~r.ret
           /\ Levels(r.b) = Levels(book)
           /\ r.b.orders_ = book.orders_
           /\ r.b.recent_buy_volume_ = book.recent_buy_volume_
           /\ r.b.recent_sell_volume_ = book.recent_sell_volume_
           /\ r.b.last_sequence_number_ = book.last_sequence_number_
           /\ r.b.total_updates_ = book.total_updates_
           /\ r.b.current_ofi_ = book.current_ofi_
           /\ r.b.published_ = book.published_
           /\ ~GapDetected(book, u) => WithoutPrevious(r.b) = WithoutPrevious(book)

\* a DELETE has failed on a book that never saw a gap, holds levels on
\* both sides, tracks an order and has published features
C18_Witness ==
    /\ obLast.kind = "update" /\ obLast.type = "DELETE" /\ ~obLast.ret
    /\ ~book.gap_detected_
    /\ DOMAIN book.bids_ # {} /\ DOMAIN book.asks_ # {}
    /\ DOMAIN book.orders_ # {}
    /\ book.published_ > 0

\* the NIC is running and its tick queue is full
NicQueueFull ==
    nic.is_running_ /\ Len(nic.market_data_queue_) = NicCapacity

\* C19: a tick that a producer fails to enqueue because the tick queue is
\* full is reported or counted: inject_market_data returns false,
\* inject_batch returns fewer than it was given, and an iteration of the
\* simulator's feed thread leaves a record of the tick it could not enqueue
C19_OverflowNeverSilent ==
    [][NicQueueFull =>
         /\ (sim' = sim /\ nicLast' # nicLast
             /\ nicLast'.op = "inject_market_data") => nicLast'.ret = 0
         /\ (sim' = sim /\ nicLast' # nicLast
             /\ nicLast'.op = "inject_batch") => nicLast'.ret < nicLast'.count
         /\ sim'.seq = sim.seq + 1
              => <<nic, nicLast, sim.is_running_>>'
                     # <<nic, nicLast, sim.is_running_>>
      ]_vars

\* C20: after update(e), with no further event, the intensity of a side does
\* not increase with the horizon: for 0 <= h1 <= h2 the prediction at h2 is
\* at most the prediction at h1, horizon 0 being the intensity the getters
\* return after the update; with an empty history the intensity is the
\* baseline
C20_IntensityNonIncreasing ==
    /\ (hk.buy_events_ = <<>> /\ hk.sell_events_ = <<>>)
         => /\ get_buy_intensity(hk) = BaselineIntensity
            /\ get_sell_intensity(hk) = BaselineIntensity
    /\ (hk.buy_events_ # <<>> \/ hk.sell_events_ # <<>>)
         => /\ predict_buy_intensity(hk, 0) = get_buy_intensity(hk)
            /\ predict_sell_intensity(hk, 0) = get_sell_intensity(hk)
            /\ \A h1, h2 \in Horizons :
                 h1 <= h2 =>
                   /\ predict_buy_intensity(hk, h2)
                          <= predict_buy_intensity(hk, h1)
                   /\ predict_sell_intensity(hk, h2)
                          <= predict_sell_intensity(hk, h1)

\* C21: capacity() is Capacity - 1; size(), whether its two loads are taken
\* together or apart with push and pop steps in between, returns a value
\* in 0 .. capacity(); with no push or pop in progress size() is the number
\* of successful pushes minus the number of successful pops
C21_SizeWithinCapacity ==
    /\ capacity = Capacity - 1
    /\ SizeOf(head_, tail_) \in 0 .. capacity
    /\ obs.pc = "done" => obs.ret \in 0 .. capacity
    /\ (prod.pc = "idle" /\ cons.pc = "idle")
         => SizeOf(head_, tail_) = Len(pushed) - Len(popped)

\* size() has returned from loads taken apart, with the indices wrapped
\* and a push and a pop both in progress
C21_Witness ==
    /\ obs.pc = "done" /\ obs.h # head_
    /\ tail_ < head_
    /\ prod.pc # "idle" /\ cons.pc # "idle"

\* the queue is at rest holding capacity() items
C21_WitnessFull ==
    /\ prod.pc = "idle" /\ cons.pc = "idle"
    /\ SizeOf(head_, tail_) = capacity /\ Len(popped) > 0

\* the sum of the nine members, taken over the list of their names
RECURSIVE SumStages(_, _)
SumStages(t, n) == IF n = 0 THEN 0 ELSE t[Stages[n]] + SumStages(t, n - 1)

\* C22: total() is the sum of the nine stage timings, each counted once,
\* for every value of the fields; it is 0 for a default-constructed
\* ComponentTiming; and a call of total() leaves every field as it was
C22_TotalIsSumOfStages ==
    /\ [](/\ Len(Stages) = 9
          /\ Cardinality({Stages[i] : i \in DOMAIN Stages}) = 9
          /\ total(NewComponentTiming) = 0
          /\ total(ct.timing) = SumStages(ct.timing, Len(Stages))
          /\ ct.op = "total" => ct.ret = SumStages(ct.timing, Len(Stages)))
    /\ [][ct'.op = "total" => ct'.timing = ct.timing]_vars

\* total() has just returned for a timing whose inference stage, alone
\* among some others, is non-zero
C22_Witness ==
    /\ ct.op = "total"
    /\ ct.timing.inference > 0
    /\ ct.timing.tx_app_to_dma > 0
    /\ ct.timing.strategy = 0
    /\ ct.ret = SumStages(ct.timing, Len(Stages))
    /\ ct.ret > 1

\* the call returned quotes (its inputs were valid)
C23_Quoted == mm.called /\ mm.mid > 0 /\ mm.time_remaining > 0

\* C23: when the latency cost c exceeds the half-spread h = total_spread / 2,
\* the spread is widened to total_spread + 2 (c - h) and bid and ask are
\* placed with the recomputed half-spread, so that before tick rounding
\* ask - bid = 2 c; for c <= h the unrounded quotes are total_spread apart
\* (bid_raw and ask_raw are over the denominator 200)
C23_LatencyCostWidensQuotes ==
    C23_Quoted =>
        IF 2 * mm.latency_cost > mm.min_total_spread
        THEN /\ mm.total_spread = 2 * mm.latency_cost
             /\ mm.ask_raw - mm.bid_raw = 200 * (2 * mm.latency_cost)
        ELSE /\ mm.total_spread = mm.min_total_spread
             /\ mm.ask_raw - mm.bid_raw = 200 * mm.min_total_spread

\* C24: in every state reached during run_backtest the absolute value of
\* current_position_ is at most config.max_position
C24_PositionWithinLimit ==
    Abs(ps.current_position_) <= ps.max_position

\* C25: an order is never both filled and pending, never filled twice, and
\* an order handed to the fill model leaves the pending list, so that it
\* is not evaluated again; when run_backtest has gone through the event
\* stream no submitted order is left pending: each one has been filled or
\* cancelled
C25_OrderLifetimeEnds ==
    /\ OrderIdsOf(bt.filled_orders_) \cap OrderIdsOf(bt.active_orders_) = {}
    /\ Cardinality(OrderIdsOf(bt.filled_orders_)) = Len(bt.filled_orders_)
    /\ Cardinality(OrderIdsOf(bt.active_orders_)) = Len(bt.active_orders_)
    /\ {o.order_id : o \in btObs.offered} \cap OrderIdsOf(bt.active_orders_) = {}
    /\ bt.pc = "done" => bt.active_orders_ = <<>>

\* C26: on a feed of consecutive sequence numbers after a snapshot the gap
\* flag is never set and no update is rejected for a sequence gap (no
\* snapshot is requested, no update is counted as missed), whatever the
\* kinds of the updates and whether or not one of them fails
C26_GapFreeFeedNeverFlagged ==
    /\ ~book.gap_detected_
    /\ book.snapshot_requests_ = 0
    /\ book.missed_updates_ = 0

\* the producer is between its full test and the store of tail_: it is
\* writing, or has written, slot current_tail
C27_Writing == prod.pc \in {"write_lo", "write_hi", "publish"}

\* the consumer is between its empty test and the store of head_: it is
\* reading, or has read, slot current_head
C27_Reading == cons.pc \in {"read_lo", "read_hi", "advance"}

C28_SameLevel(idx, side, top) ==
    IF idx = NullSlot THEN top = <<>>
    ELSE /\ Len(top) = 1
         /\ side.levels[idx].price = top[1].price
         /\ side.levels[idx].quantity = top[1].quantity
         /\ side.levels[idx].order_count = top[1].order_count

\* C28: the same updates applied to a FastLOBReconstructor and an
\* OrderBookReconstructor are accepted or rejected by both alike, and after
\* each update get_bbo() and get_top_of_book() report the same best bid and
\* the same best ask: presence, price, quantity and order count
C28_DropInReplacement ==
    /\ obLast.kind = "update" => fast.ret = obLast.ret
    /\ C28_SameLevel(get_bbo(fast.lob).bid, fast.lob.bids,
                     get_top_of_book(book).bid)
    /\ C28_SameLevel(get_bbo(fast.lob).ask, fast.lob.asks,
                     get_top_of_book(book).ask)

\* the tracked orders resting at a price on a side
C29_TrackedAt(price, is_bid) ==
    {id \in DOMAIN book.orders_ :
        /\ book.orders_[id].price = price
        /\ book.orders_[id].is_bid = is_bid}

RECURSIVE C29_Remaining(_)
\* the sum of the remaining quantities of a set of tracked orders
C29_Remaining(ids) ==
    IF ids = {} THEN 0
    ELSE LET id == CHOOSE x \in ids : TRUE
         IN book.orders_[id].quantity + C29_Remaining(ids \ {id})

C29_SideConsistent(m, is_bid) ==
    \A p \in DOMAIN m :
        /\ m[p].price = p
        /\ m[p].quantity = C29_Remaining(C29_TrackedAt(p, is_bid))
        /\ m[p].order_count = Cardinality(C29_TrackedAt(p, is_bid))

C30_TrackedAt(price, is_bid) ==
    {id \in DOMAIN fast.lob.orders_ :
        /\ fast.lob.orders_[id].price = price
        /\ fast.lob.orders_[id].is_bid = is_bid}

C30_SideCounts(side, is_bid) ==
    \A i \in Slots :
        side.levels[i].is_active =>
            side.levels[i].order_count
                = Cardinality(C30_TrackedAt(side.levels[i].price, is_bid))

\* C30: after accepted updates of a well-formed feed, the order_count of
\* every active level of the slot array is the number of tracked orders at
\* that price and side; an EXECUTE that fully fills one of several orders
\* of a level lowers the level's order_count by one
C30_LevelOrderCount ==
    /\ C30_SideCounts(fast.lob.bids, TRUE)
    /\ C30_SideCounts(fast.lob.asks, FALSE)

\* the price -> index map and the slot array of one side agree
C31_SideConsistent(side) ==
    /\ \A p \in DOMAIN side.price_to_index :
          /\ side.levels[side.price_to_index[p]].is_active
          /\ side.levels[side.price_to_index[p]].price = p
    /\ \A p, q \in DOMAIN side.price_to_index :
          side.price_to_index[p] = side.price_to_index[q] => p = q
    /\ \A i \in Slots :
          side.levels[i].is_active =>
              \E p \in DOMAIN side.price_to_index :
                  side.price_to_index[p] = i

\* C31: in every reachable state of ArrayBasedOrderBook every price of a
\* side's price -> index map refers to an active slot that stores that
\* price, no two prices map to one slot, and every active slot is referred
\* to by a key, also when a price is added while MaxLevels prices are
\* active on the side
C31_SlotMapConsistent ==
    /\ C31_SideConsistent(ab.book.bids)
    /\ C31_SideConsistent(ab.book.asks)

\* C32: no thread tries to lock a mutex of the reconstructor that it
\* already owns, and a call of get_statistics neither blocks for ever nor
\* fails: get_statistics always returns
C32_GetStatisticsReturns ==
    \A t \in Threads :
        /\ lk.stack[t] # <<>> /\ Acquiring(Top(t)) # "none"
              => lk.owner[Acquiring(Top(t))] # t
        /\ lk.result[t] \notin {"blocked", "threw"}

\* C33: a run of run_backtest on an engine that has run before starts from
\* the state of a freshly constructed engine and goes as the run of that
\* engine does: at the start of the loop, during it and at its end the
\* temporal filter, the order-id counter, the pending orders and the fills
\* of the two are the same
C33_RunIndependence ==
    sw.engine.pc \in {"running", "done"} =>
        /\ sw.engine.temporal_filter_ = sw.fresh.temporal_filter_
        /\ sw.engine.order_id_counter_ = sw.fresh.order_id_counter_
        /\ sw.engine.active_orders_ = sw.fresh.active_orders_
        /\ sw.engine.filled_orders_ = sw.fresh.filled_orders_

\* the level a side holds at a price, absent as quantity 0 and count 0
C34_LevelAt(m, p) ==
    IF p \in DOMAIN m THEN m[p] ELSE PriceLevel(p, 0, 0)

\* the level at price p once the order o has been taken off the side m
C34_Without(m, o, p) ==
    IF p = o.price /\ p \in DOMAIN m
    THEN IF m[p].quantity - o.quantity <= 0 \/ m[p].order_count - 1 = 0
         THEN PriceLevel(p, 0, 0)
         ELSE PriceLevel(p, m[p].quantity - o.quantity,
                         m[p].order_count - 1)
    ELSE C34_LevelAt(m, p)

\* the side m1 is the side m after the tracked order o was modified to
\* price new_price and quantity new_quantity
C34_SideModified(m, m1, o, new_price, new_quantity) ==
    /\ new_price \in DOMAIN m1
    /\ m1[new_price] =
          PriceLevel(new_price,
                     C34_Without(m, o, new_price).quantity + new_quantity,
                     C34_Without(m, o, new_price).order_count + 1)
    /\ \A p \in (DOMAIN m \cup DOMAIN m1) \ {new_price} :
          C34_LevelAt(m1, p) = C34_Without(m, o, p)

\* C34: a MODIFY of a tracked order takes the order's tracked quantity and
\* one order off the level at its tracked price (the level goes when it is
\* empty), adds the new quantity and one order at the new price on the
\* order's side, records the new price and quantity for the order and
\* leaves every other level as it was; a MODIFY of an unknown id does what
\* an ADD with the same fields does
C34_ModifyEffect ==
    (ob.u.type = "MODIFY") =>
        IF ob.u.order_id \in DOMAIN ob.before.orders_
        THEN LET o == ob.before.orders_[ob.u.order_id]
             IN /\ ob.ret
                /\ IF o.is_bid
                   THEN /\ C34_SideModified(ob.before.bids_, ob.book.bids_,
                                            o, ob.u.price, ob.u.quantity)
                        /\ ob.book.asks_ = ob.before.asks_
                   ELSE /\ C34_SideModified(ob.before.asks_, ob.book.asks_,
                                            o, ob.u.price, ob.u.quantity)
                        /\ ob.book.bids_ = ob.before.bids_
                /\ ob.book.orders_ =
                      [ob.before.orders_ EXCEPT
                          ![ob.u.order_id] =
                              [order_id |-> o.order_id, price |-> ob.u.price,
                               quantity |-> ob.u.quantity,
                               is_bid |-> o.is_bid]]
        ELSE ob.book = ProcessUpdate(ob.before,
                                     [ob.u EXCEPT !.type = "ADD"]).b

\* a tracked order was moved from a level it shared with another order to
\* a price without level
C34_Witness ==
    /\ ob.u.type = "MODIFY"
    /\ ob.u.order_id \in DOMAIN ob.before.orders_
    /\ ob.before.orders_[ob.u.order_id].is_bid
    /\ ob.before.orders_[ob.u.order_id].price # ob.u.price
    /\ ob.before.bids_[ob.before.orders_[ob.u.order_id].price].order_count = 2
    /\ ob.u.price \notin DOMAIN ob.before.bids_
    /\ Cardinality(DOMAIN ob.book.bids_) = 2

\* the side m1 is the side m after quantity executed was executed against
\* the tracked order o
C35_SideExecuted(m, m1, o, executed) ==
    LET quantity == m[o.price].quantity - executed
        order_count == IF executed >= o.quantity
                       THEN m[o.price].order_count - 1
                       ELSE m[o.price].order_count
    IN /\ (o.price \in DOMAIN m1) <=> ~(quantity <= 0 \/ order_count = 0)
       /\ o.price \in DOMAIN m1 =>
             m1[o.price] = PriceLevel(o.price, quantity, order_count)
       /\ \A p \in (DOMAIN m \cup DOMAIN m1) \ {o.price} :
             /\ p \in DOMAIN m /\ p \in DOMAIN m1
             /\ m1[p] = m[p]

\* C35: an EXECUTE of a tracked order reduces the level at the order's
\* price by the executed quantity; when the executed quantity is at least
\* the order's remaining quantity the level loses one order and the order
\* is no longer tracked, otherwise the order stays tracked with its
\* quantity reduced; the level goes exactly when its quantity is <= 0 or
\* its order count 0; no other level and no other order changes
C35_ExecuteEffect ==
    (ob.u.type = "EXECUTE" /\ ob.u.order_id \in DOMAIN ob.before.orders_) =>
        LET o == ob.before.orders_[ob.u.order_id]
            side == IF o.is_bid THEN ob.before.bids_ ELSE ob.before.asks_
            side1 == IF o.is_bid THEN ob.book.bids_ ELSE ob.book.asks_
        IN /\ ob.ret
           /\ IF o.price \in DOMAIN side
              THEN C35_SideExecuted(side, side1, o, ob.u.quantity)
              ELSE side1 = side
           /\ IF o.is_bid THEN ob.book.asks_ = ob.before.asks_
              ELSE ob.book.bids_ = ob.before.bids_
           /\ IF ob.u.quantity >= o.quantity
              THEN ob.book.orders_ = Erase(ob.before.orders_, ob.u.order_id)
              ELSE ob.book.orders_ =
                      [ob.before.orders_ EXCEPT
                          ![ob.u.order_id].quantity = @ - ob.u.quantity]

\* C36: after an accepted update every registered callback has been invoked
\* once, in registration order, with the features computed for that
\* update, and get_current_ofi returns those features; a rejected update
\* (sequence gap, unknown DELETE, SNAPSHOT type) invokes no callback and
\* leaves the retained features as they were
C36_FeaturePublication ==
    (ob.u.type # "none") =>
        IF ob.ret
        THEN /\ Len(ob.invoked) = Len(ob.callbacks_)
             /\ \A i \in 1 .. Len(ob.callbacks_) :
                   /\ ob.invoked[i].callback = ob.callbacks_[i]
                   /\ ob.invoked[i].features = CalculateDeepOfi(ob.book)
             /\ get_current_ofi(ob.book) = CalculateDeepOfi(ob.book)
        ELSE /\ ob.invoked = <<>>
             /\ get_current_ofi(ob.book) = get_current_ofi(ob.before)

\* two observers are registered and an update that changed the top of the
\* book was accepted after a snapshot
C36_Witness ==
    /\ Len(ob.callbacks_) = 2
    /\ ob.callbacks_[1] # ob.callbacks_[2]
    /\ ob.ret /\ ob.u.type = "ADD"
    /\ ob.before.is_initialized_
    /\ Len(ob.invoked) = 2
    /\ ob.invoked[1].features.top_1_ofi # 0

\* C37: on every tick on which orders are submitted, half the quoted
\* spread exceeds 1.1 times the latency cost (should_quote is true); when
\* the gate is false no order is submitted on the tick
C37_LatencyGate ==
    gt.called =>
        (gt.submitted # {} => 10 * gt.quotes.spread > 22 * gt.latency_cost)

\* the fill probability of the order of av before the adverse-move step:
\* base, queue position, spread, volatility, aggressiveness and latency
C38_BeforePenalty ==
    LET p1 == Scale(BaseFillProbability,
                    ExpNeg(QueuePositionDecayMilli * av.queue_position))
        spread_arg == (SpreadSensitivityMilli * 10000
                         * (av.tick.ask_price - av.tick.bid_price))
                         \div av.tick.mid_price
        p3 == Scale(Scale(p1, ExpNeg(spread_arg)),
                    ExpNeg((VolatilityImpactMilli * av.volatility) \div 100))
        p4 == IF av.side = "BUY"
              THEN IF av.price >= av.tick.ask_price THEN ProbOne
                   ELSE IF av.price < av.tick.bid_price THEN p3 \div 10
                   ELSE p3
              ELSE IF av.price <= av.tick.bid_price THEN ProbOne
                   ELSE IF av.price > av.tick.ask_price THEN p3 \div 10
                   ELSE p3
    IN Scale(p4, LatencyFactor(av.latency_us))

\* the mid price moved against the order of av
C38_AdverseMove ==
    \/ av.side = "BUY" /\ av.tick.mid_price > av.price
    \/ av.side = "SELL" /\ av.tick.mid_price < av.price

\* C38: with enable_adverse_selection false the fill probability of an
\* order is the one before the adverse-move step whether or not the mid
\* moved against the order; with the flag true an adverse move multiplies
\* it by 0.80; the order is filled when the draw is below the probability
C38_AdverseSelectionFlag ==
    av.called =>
        /\ av.fill_prob =
              IF av.enable_adverse_selection /\ C38_AdverseMove
              THEN Scale(C38_BeforePenalty, ProbOne - AdverseSelectionPenalty)
              ELSE C38_BeforePenalty
        /\ av.filled = (av.random_draw < av.fill_prob)

\* the last call of sq raised a gap in the OrderBookReconstructor
C39_GapRaised ==
    /\ ~sq.ret
    /\ sq.book.gap_detected_
    /\ sq.book.snapshot_requests_ = sq.before.snapshot_requests_ + 1

\* the last call of sq left the gap record of the OrderBookReconstructor
\* alone and gave the update to its handler
C39_Handled ==
    /\ sq.book.gap_detected_ = sq.before.gap_detected_
    /\ sq.book.snapshot_requests_ = sq.before.snapshot_requests_
    /\ sq.book.missed_updates_ = sq.before.missed_updates_
    /\ sq.ret = Dispatch(StorePreviousState(sq.before), sq.u).ok
    /\ sq.ret => sq.book.last_sequence_number_ = sq.u.sequence_number

\* C39: while the last accepted sequence number is 0 (nothing accepted
\* yet, or a snapshot numbered 0 loaded) process_update of either
\* reconstructor takes an update with any sequence number without raising
\* a gap; once it is non-zero (and, for the OrderBookReconstructor, a
\* snapshot has been loaded) an update that is not numbered last + 1 is
\* rejected as a gap
C39_SentinelZero ==
    /\ sq.kind = "update" =>
         /\ sq.before.last_sequence_number_ = 0 => C39_Handled
         /\ (/\ sq.before.is_initialized_
             /\ sq.before.last_sequence_number_ # 0
             /\ sq.u.sequence_number # sq.before.last_sequence_number_ + 1)
              => C39_GapRaised
    /\ sq.kind = "fast" =>
         /\ sq.fastBefore.last_sequence_number_ = 0 =>
              /\ sq.fast.last_sequence_number_ = sq.u.sequence_number
              /\ sq.update_type = 0 => sq.ret
         /\ (/\ sq.fastBefore.last_sequence_number_ # 0
             /\ sq.u.sequence_number
                  # sq.fastBefore.last_sequence_number_ + 1)
              => ~sq.ret /\ sq.fast = sq.fastBefore

\* an ADD numbered 3 is accepted by a reconstructor loaded from a snapshot
\* numbered 0, and the FastLOBReconstructor has accepted a first update
\* numbered 2
C39_Witness ==
    /\ sq.kind = "update"
    /\ sq.before.is_initialized_
    /\ sq.before.last_sequence_number_ = 0
    /\ sq.u.type = "ADD"
    /\ sq.u.sequence_number = 3
    /\ sq.ret
    /\ sq.book.last_sequence_number_ = 3
    /\ ~sq.book.gap_detected_
    /\ sq.fast.last_sequence_number_ = 2

\* the last PressureWindow entries of a history, all of it when shorter
C40_MostRecent(history) ==
    IF Len(history) <= PressureWindow THEN history
    ELSE SubSeq(history, Len(history) - PressureWindow + 1, Len(history))

\* C40: after any sequence of updates each pressure window holds at most
\* 1000 entries, the most recent quantities of the EXECUTEs of untracked
\* orders on its side in arrival order, and buy_pressure and
\* sell_pressure of the features are the sums of the windows and
\* net_pressure their difference
C40_PressureWindows ==
    /\ Len(pw.book.recent_buy_volume_) <= 1000
    /\ Len(pw.book.recent_sell_volume_) <= 1000
    /\ pw.book.recent_buy_volume_ = C40_MostRecent(pw.buy_history)
    /\ pw.book.recent_sell_volume_ = C40_MostRecent(pw.sell_history)
    /\ pw.ret =>
         /\ pw.book.current_ofi_.buy_pressure
              = SumSeq(pw.book.recent_buy_volume_)
         /\ pw.book.current_ofi_.sell_pressure
              = SumSeq(pw.book.recent_sell_volume_)
         /\ pw.book.current_ofi_.net_pressure
              = pw.book.current_ofi_.buy_pressure
                  - pw.book.current_ofi_.sell_pressure

\* the 1002nd aggressive trade of a side has arrived: the window holds the
\* last 1000 and the two oldest are gone
C40_Witness ==
    /\ \/ /\ Len(pw.buy_history) = 1002
          /\ Len(pw.book.recent_buy_volume_) = 1000
          /\ Head(pw.book.recent_buy_volume_) = pw.buy_history[3]
       \/ /\ Len(pw.sell_history) = 1002
          /\ Len(pw.book.recent_sell_volume_) = 1000
          /\ Head(pw.book.recent_sell_volume_) = pw.sell_history[3]
    /\ pw.ret
    /\ pw.book.current_ofi_.buy_pressure + pw.book.current_ofi_.sell_pressure
         >= 1000

=============================================================================
